---- MODULE Spec2Model ----
(***************************************************************************)
(* MemoryInk: the note cipher (utils/encryption), the image metadata note  *)
(* codec (utils/metadata and its client-side twin in frontend/lib/api.ts)  *)
(* and the routes that call them (routes/notes, routes/download,           *)
(* routes/images).                                                         *)
(*                                                                         *)
(* Strings are sequences of characters.  A character is a record: a        *)
(* literal character [ch |-> "a"], or one base64 digit group [b64 |-> b]   *)
(* standing for the base64 text of the byte (block) b.  Byte sequences are *)
(* sequences of symbolic bytes.  Cryptographic primitives are symbolic     *)
(* terms: a derived key names the password and salt it was derived from, a *)
(* cipher byte names the key, the position and the plaintext byte, and an  *)
(* authentication tag names the key, the associated data and the           *)
(* ciphertext it authenticates.                                            *)
(***************************************************************************)
EXTENDS Integers, Sequences, FiniteSets, TLC

VARIABLES
  calls,    \* cipher: the encryptNote calls made so far, with their results
  rng,      \* number of crypto.randomBytes draws made so far
  dec,      \* cipher: the last decryptNote call, its parameters and outcome
  fs,       \* the file system: path -> file, for the files that exist
  cur,      \* codec: the path of the image the next operation works on
  hist,     \* codec: the embeds that succeeded on the way to fs[cur]
  res,      \* codec: what the last embed or extract call returned
  db,       \* routes: the tables Image, Note and NoteVersion
  ghost,    \* history: which save each embedded note and Note row stems from
  held,     \* routes: the image file the user last received from the server
  resp,     \* routes: the response to the last request
  now,      \* routes: Date.now(), as the number of download files made so far
  timers,   \* routes: temporary files whose clean-up timer is pending
  procs,    \* operations in flight: each process's call, position and result
  auth      \* browser: AuthProvider's state, localStorage, the axios header

cipherVars == <<calls, rng, dec>>
codecVars == <<fs, cur, hist, res>>
routeVars == <<db, ghost, held, resp, now, timers>>
vars ==
  <<calls, rng, dec, fs, cur, hist, res, db, ghost, held, resp, now, timers,
    procs, auth>>

-----------------------------------------------------------------------------
(* Bounds *)

MaxTextLen == 1
MaxCalls == 2
MaxEmbeds == 2

-----------------------------------------------------------------------------
(* Characters and strings *)

\* a character of U+0001..U+00FF (ASCII here: one UTF-8 byte)
Latin1Chars == {"a"}
\* a character above U+00FF (for example U+0416: two UTF-8 bytes)
WideChars == {"w"}
Chars == Latin1Chars \cup WideChars

Lit(c) == [ch |-> c]
Str(s) == [i \in 1..Len(s) |-> Lit(s[i])]

RECURSIVE SeqsUpTo(_, _)
SeqsUpTo(S, n) ==
  IF n = 0 THEN {<<>>}
  ELSE LET shorter == SeqsUpTo(S, n - 1)
       IN shorter \cup {Append(s, c) : s \in shorter, c \in S}

Texts == {Str(s) : s \in SeqsUpTo(Chars, MaxTextLen)}

IsB64(c) == "b64" \in DOMAIN c
IsLit(c) == "ch" \in DOMAIN c

Passwords == {"p1", "p2"}

-----------------------------------------------------------------------------
(* Byte encodings (Node Buffer / StringDecoder) *)

\* UTF-8: one byte for an ASCII character, two for a character such as U+0416
Utf8Len(c) == IF c.ch \in WideChars THEN 2 ELSE 1

RECURSIVE Utf8Encode(_)
Utf8Encode(str) ==
  IF str = <<>> THEN <<>>
  ELSE [k \in 1..Utf8Len(Head(str)) |-> [of |-> Head(str).ch, k |-> k]]
         \o Utf8Encode(Tail(str))

IsPlainByte(b) == "of" \in DOMAIN b

\* U+FFFD, what the decoder emits for a byte that starts no valid sequence
ReplacementChar == Lit("\\uFFFD")

RECURSIVE Utf8Decode(_)
Utf8Decode(bytes) ==
  IF bytes = <<>> THEN <<>>
  ELSE LET b == Head(bytes)
       IN IF IsPlainByte(b) /\ b.k = 1 /\ b.of \notin WideChars
            THEN <<Lit(b.of)>> \o Utf8Decode(Tail(bytes))
          ELSE IF /\ IsPlainByte(b) /\ b.k = 1 /\ b.of \in WideChars
                  /\ Len(bytes) >= 2
                  /\ IsPlainByte(bytes[2]) /\ bytes[2].of = b.of /\ bytes[2].k = 2
            THEN <<Lit(b.of)>> \o Utf8Decode(SubSeq(bytes, 3, Len(bytes)))
          ELSE <<ReplacementChar>> \o Utf8Decode(Tail(bytes))

\* the literal characters of the model that are base64 digits
Base64Digits == {"a", "b", "E", "N", "C", "R", "Y", "P", "T", "D"}

Base64Encode(bytes) == [i \in 1..Len(bytes) |-> [b64 |-> bytes[i]]]

\* Node's decoder skips what is no base64 digit; a literal digit decodes to
\* a byte that no cipher produced
IsBase64Char(c) == IsB64(c) \/ (IsLit(c) /\ c.ch \in Base64Digits)
Base64Decode(str) ==
  LET digits == SelectSeq(str, IsBase64Char)
  IN [i \in 1..Len(digits) |->
        IF IsB64(digits[i]) THEN digits[i].b64 ELSE [raw |-> digits[i].ch]]

-----------------------------------------------------------------------------
(* Note cipher: utils/encryption *)

\* null, where a string is expected (a Note column that was never set)
Null == <<[null |-> TRUE]>>

Returned(v) == [ok |-> TRUE, value |-> v, error |-> "none"]
Thrown(e) == [ok |-> FALSE, value |-> <<>>, error |-> e]

\* crypto.randomBytes(size): the n-th draw of the generator, a fresh block
RandomBytes(n, size) == <<[seed |-> n, size |-> size]>>

AAD == "memoryink-note"

deriveKey_ignoresSalt(password, salt) == [pw |-> password, salt |-> <<>>]

\* PBKDF2(password, salt, 100000, 32, sha256)
deriveKey(password, salt) == [pw |-> password, salt |-> salt]

\* crypto.createCipher('aes-256-gcm', key): key and nonce both come from
\* `key`; update() turns byte i into a cipher byte of the same position
CipherUpdate(key, bytes) ==
  [i \in 1..Len(bytes) |-> [key |-> key, pos |-> i, pt |-> bytes[i]]]

DecipherUpdate(key, ct) ==
  [i \in 1..Len(ct) |->
     IF "pt" \in DOMAIN ct[i] /\ ct[i].key = key /\ ct[i].pos = i
       THEN ct[i].pt
       ELSE [garbage |-> i]]

GetAuthTag(key, aad, ct) == <<[key |-> key, aad |-> aad, ct |-> ct]>>

encryptNote(text, password, n) ==
  LET salt == RandomBytes(n + 1, 32)
      iv == RandomBytes(n + 2, 16)
      key == deriveKey(password, salt)
      encrypted == CipherUpdate(key, Utf8Encode(text))
      authTag == GetAuthTag(key, AAD, encrypted)
  IN [encryptedData |-> Base64Encode(encrypted),
      salt |-> Base64Encode(salt),
      iv |-> Base64Encode(iv),
      authTag |-> Base64Encode(authTag)]

\* decryptNote with the key derived from the iv instead of the salt
decryptNote_keyFromIv(params) ==
  LET key == deriveKey(params.password, Base64Decode(params.iv))
      ct == Base64Decode(params.encryptedData)
  IN IF Base64Decode(params.authTag) = GetAuthTag(key, AAD, ct)
       THEN Returned(Utf8Decode(DecipherUpdate(key, ct)))
       ELSE Thrown("Unsupported state or unable to authenticate data")

\* decryptNote without setAuthTag/final: the tag is never verified
decryptNote_noAuth(params) ==
  LET key == deriveKey(params.password, Base64Decode(params.salt))
      ct == Base64Decode(params.encryptedData)
  IN Returned(Utf8Decode(DecipherUpdate(key, ct)))

decryptNote(params) ==
  IF \/ params.encryptedData = Null \/ params.salt = Null
     \/ params.iv = Null \/ params.authTag = Null
    THEN Thrown("TypeError")
  ELSE
    LET saltBuffer == Base64Decode(params.salt)
        ivBuffer == Base64Decode(params.iv)
        authTagBuffer == Base64Decode(params.authTag)
        key == deriveKey(params.password, saltBuffer)
        ct == Base64Decode(params.encryptedData)
        decrypted == DecipherUpdate(key, ct)
    IN IF authTagBuffer = GetAuthTag(key, AAD, ct)
         THEN Returned(Utf8Decode(decrypted))
         ELSE Thrown("Unsupported state or unable to authenticate data")


-----------------------------------------------------------------------------
(* The cipher called directly, as the unit tests call it *)

NoDec == <<>>

CipherIdle ==
  /\ calls = <<>>
  /\ rng = 0
  /\ dec = NoDec

\* no codec call made yet
NoRes ==
  [op |-> "none", ok |-> TRUE, error |-> "none", note |-> <<>>,
   isEncrypted |-> FALSE,
   input |-> [stem |-> "", emb |-> 0, ext |-> ""],
   path |-> [stem |-> "", emb |-> 0, ext |-> ""]]

CodecIdle ==
  /\ fs = <<>>
  /\ cur = [stem |-> "", emb |-> 0, ext |-> ""]
  /\ hist = <<>>
  /\ res = NoRes

\* an empty database, nothing downloaded, no request made yet
NoProv == [s |-> <<>>, p |-> "", enc |-> FALSE, via |-> "none"]

NoHeld ==
  [any |-> FALSE, file |-> [kind |-> "none", chunks |-> <<>>, tags |-> <<>>],
   ext |-> "", prov |-> NoProv]

NoResp ==
  [route |-> "none", status |-> 0, error |-> "none", imageId |-> 0,
   password |-> "", content |-> <<>>, isEncrypted |-> FALSE, version |-> 0]

\* no operation in flight
\* no page open in the browser
AuthIdle == auth = <<>>

ProcsIdle == procs = <<>> /\ AuthIdle

RoutesIdle ==
  /\ db = [images |-> <<>>, notes |-> <<>>, versions |-> <<>>]
  /\ ghost = [files |-> <<>>, notes |-> <<>>, saves |-> 0]
  /\ held = NoHeld
  /\ resp = NoResp
  /\ now = 0
  /\ timers = {}

CipherInit ==
  /\ CipherIdle
  /\ ProcsIdle
  /\ CodecIdle
  /\ RoutesIdle

EncryptCall(text, password) ==
  /\ Len(calls) < MaxCalls
  /\ calls' = Append(calls, [text |-> text, password |-> password,
                             result |-> encryptNote(text, password, rng)])
  /\ rng' = rng + 2
  /\ dec' = NoDec
  /\ UNCHANGED codecVars
  /\ UNCHANGED routeVars
  /\ UNCHANGED <<procs, auth>>

\* values a caller can put in place of a field of an EncryptionResult:
\* the same field of another call, or a value no call returned
CorruptedData(ed) == Str(<<"b">>) \o ed
TruncatedData(ed) == IF ed = <<>> THEN ed ELSE SubSeq(ed, 1, Len(ed) - 1)
OtherResults(c, f) == {calls[j].result[f] : j \in (1..Len(calls)) \ {c}}
Alternatives(c, f) ==
  LET own == calls[c].result[f]
  IN (OtherResults(c, f) \cup
      (CASE f = "encryptedData" -> {CorruptedData(own), TruncatedData(own)}
         [] f = "salt" -> {Base64Encode(RandomBytes(0, 32))}
         [] f = "iv" -> {Base64Encode(RandomBytes(0, 16))}
         [] f = "authTag" -> {Base64Encode(RandomBytes(0, 16))})) \ {own}

ResultFields == {"encryptedData", "salt", "iv", "authTag"}

DecryptWith(params) ==
  /\ dec' = <<[params |-> params, out |-> decryptNote(params)]>>
  /\ UNCHANGED <<calls, rng>>
  /\ UNCHANGED codecVars
  /\ UNCHANGED routeVars
  /\ UNCHANGED <<procs, auth>>

\* dec holds the outcome of one call; decryptNote keeps no state, so one
\* call per value of dec reaches every outcome
DecryptCall ==
  /\ dec = NoDec
  /\ \E c \in 1..Len(calls), password \in Passwords :
    LET own == calls[c].result
        exact == [encryptedData |-> own.encryptedData, salt |-> own.salt,
                  iv |-> own.iv, authTag |-> own.authTag,
                  password |-> password]
     IN \/ DecryptWith(exact)
        \/ \E f \in ResultFields : \E alt \in Alternatives(c, f) :
             DecryptWith([exact EXCEPT ![f] = alt])

CipherNext ==
  \/ \E text \in Texts, password \in Passwords : EncryptCall(text, password)
  \/ DecryptCall

SpecCipher == CipherInit /\ [][CipherNext]_vars


-----------------------------------------------------------------------------
(* Claims about the cipher (checked under SpecCipher) *)

ExactParams(c, password) ==
  [encryptedData |-> calls[c].result.encryptedData,
   salt |-> calls[c].result.salt,
   iv |-> calls[c].result.iv,
   authTag |-> calls[c].result.authTag,
   password |-> password]

\* C7: decryptNote, given the encryptedData, salt, iv and authTag that
\* encryptNote(t, p) returned together with p, returns exactly t, for the
\* empty text, ASCII text and multi-byte text alike.
C7_CipherRoundTrip ==
  \A i \in 1..Len(dec) : \A c \in 1..Len(calls) :
    dec[i].params = ExactParams(c, calls[c].password)
      => dec[i].out = Returned(calls[c].text)

C7_Witness ==
  \E i \in 1..Len(dec) : \E c \in 1..Len(calls) :
    /\ dec[i].params = ExactParams(c, calls[c].password)
    /\ calls[c].text = Str(<<"w">>)
    /\ dec[i].out.ok

\* C8: decryptNote called with the salt, iv and authTag of an encryptNote
\* call but with another password, or with ciphertext other than the bytes
\* that call produced, throws; it returns no string at all.
C8_WrongPasswordOrCiphertextFails ==
  \A i \in 1..Len(dec) : \A c \in 1..Len(calls) :
    LET p == dec[i].params
        r == calls[c].result
    IN (/\ p.salt = r.salt /\ p.iv = r.iv /\ p.authTag = r.authTag
        /\ \/ p.password # calls[c].password
           \/ Base64Decode(p.encryptedData) # Base64Decode(r.encryptedData))
         => (~dec[i].out.ok /\ dec[i].out.value = <<>>)

C8_Witness ==
  \E i \in 1..Len(dec) : \E c \in 1..Len(calls) :
    /\ dec[i].params = ExactParams(c, dec[i].params.password)
    /\ dec[i].params.password # calls[c].password
    /\ calls[c].text # <<>>
    /\ ~dec[i].out.ok

\* C9: decryptNote succeeds only when salt, iv and authTag all equal the
\* values returned by the encryptNote call that produced the ciphertext.
C9_SaltIvTagAllNeeded ==
  \A i \in 1..Len(dec) :
    dec[i].out.ok =>
      \E c \in 1..Len(calls) :
        /\ dec[i].params.salt = calls[c].result.salt
        /\ dec[i].params.iv = calls[c].result.iv
        /\ dec[i].params.authTag = calls[c].result.authTag

-----------------------------------------------------------------------------
(* Image files *)

TagNames ==
  {"ImageDescription", "UserComment", "XMP:Description", "XMP:MemoryInkNote",
   "XMP:MemoryInkEncrypted", "XMP:MemoryInkVersion", "Copyright",
   "XPComment", "Software", "Artist"}

Absent == [present |-> FALSE, v |-> <<>>]
Present(v) == [present |-> TRUE, v |-> v]
NoTags == [t \in TagNames |-> Absent]

\* a file is what its parser sees: a PNG its chunk stream, a JPEG its tag set
PngFile(chunks) == [kind |-> "png", chunks |-> chunks, tags |-> NoTags]
JpegFile(tags) == [kind |-> "jpeg", chunks |-> <<>>, tags |-> tags]
GifFile == [kind |-> "gif", chunks |-> <<>>, tags |-> NoTags]
\* bytes that no parser accepts
GarbageFile == [kind |-> "garbage", chunks |-> <<>>, tags |-> NoTags]

Path(stem, emb, ext) == [stem |-> stem, emb |-> emb, ext |-> ext]
\* outputPath left undefined
NoPath == Path("", 0, "")

\* String.prototype.toLowerCase on an extension
Lower(ext) ==
  CASE ext = ".PNG" -> ".png"
    [] ext = ".JPG" -> ".jpg"
    [] ext = ".JPEG" -> ".jpeg"
    [] OTHER -> ext

\* replace with the pattern lacking the i flag: no match on .PNG or .JPG
ReplaceExt_caseSensitive(path, exts, newExt) ==
  IF path.ext \in exts
    THEN Path(path.stem, path.emb + 1, newExt)
    ELSE path

\* path.replace(/\.(e1|e2)$/i, '_embedded' + newExt)
ReplaceExt(path, exts, newExt) ==
  IF Lower(path.ext) \in exts
    THEN Path(path.stem, path.emb + 1, newExt)
    ELSE path

-----------------------------------------------------------------------------
(* png-chunk-text, png-chunks-extract, png-chunks-encode *)

KwNote == Str(<<"M", "e", "m", "o", "r", "y", "I", "n", "k", "N", "o", "t", "e">>)
KwEncrypted ==
  Str(<<"M", "e", "m", "o", "r", "y", "I", "n", "k",
        "E", "n", "c", "r", "y", "p", "t", "e", "d">>)
KwVersion ==
  Str(<<"M", "e", "m", "o", "r", "y", "I", "n", "k",
        "V", "e", "r", "s", "i", "o", "n">>)
StrTrue == Str(<<"t", "r", "u", "e">>)
StrFalse == Str(<<"f", "a", "l", "s", "e">>)
StrVersion == Str(<<"1", ".", "0">>)

\* the zero byte that separates keyword and text in a tEXt chunk
NUL == [nul |-> TRUE]
CharCode(c) == [code |-> c]
FromCharCode(b) == b.code

IsLatin1(c) == IsB64(c) \/ c.ch \notin WideChars

\* encode() accepts /^[\x00-\xFF]+$/ only: one character at least, none
\* above U+00FF
TextEncodable(str) ==
  /\ str # <<>>
  /\ \A i \in 1..Len(str) : IsLatin1(str[i])

CanEncodeText(keyword, content) ==
  TextEncodable(keyword) /\ TextEncodable(content)

pngChunkTextEncode(keyword, content) ==
  [name |-> "tEXt",
   data |-> [i \in 1..Len(keyword) |-> CharCode(keyword[i])]
              \o <<NUL>>
              \o [i \in 1..Len(content) |-> CharCode(content[i])]]

FirstNul(data) ==
  IF \E i \in 1..Len(data) : data[i] = NUL
    THEN CHOOSE i \in 1..Len(data) :
           data[i] = NUL /\ \A j \in 1..(i - 1) : data[j] # NUL
    ELSE 0

\* decode(): the keyword runs to the first zero byte, the text is the rest;
\* a second zero byte throws
pngChunkTextDecode(data) ==
  LET k == FirstNul(data)
      nameBytes == IF k = 0 THEN data ELSE SubSeq(data, 1, k - 1)
      textBytes == IF k = 0 THEN <<>> ELSE SubSeq(data, k + 1, Len(data))
  IN IF \E i \in 1..Len(textBytes) : textBytes[i] = NUL
       THEN [ok |-> FALSE, keyword |-> <<>>, text |-> <<>>]
       ELSE [ok |-> TRUE,
             keyword |-> [i \in 1..Len(nameBytes) |-> FromCharCode(nameBytes[i])],
             text |-> [i \in 1..Len(textBytes) |-> FromCharCode(textBytes[i])]]

\* pngChunksExtract throws on what is no PNG chunk stream, on a stream
\* that does not start with IHDR and on one that holds no IEND; it stops
\* reading at the first IEND
PngParseable(file) ==
  /\ file.kind = "png"
  /\ file.chunks # <<>>
  /\ file.chunks[1].name = "IHDR"
  /\ \E i \in 1..Len(file.chunks) : file.chunks[i].name = "IEND"

\* an extract that reads on after IEND
pngChunksExtract_readsPastIend(file) == file.chunks

pngChunksExtract(file) ==
  SubSeq(file.chunks, 1,
         CHOOSE i \in 1..Len(file.chunks) :
           /\ file.chunks[i].name = "IEND"
           /\ \A j \in 1..(i - 1) : file.chunks[j].name # "IEND")
pngChunksEncode(chunks) == PngFile(chunks)

\* Array.prototype.findIndex( chunk => chunk.name === name ), 0-based, -1 if none
FindIndexByName(chunks, name) ==
  IF \E i \in 1..Len(chunks) : chunks[i].name = name
    THEN (CHOOSE i \in 1..Len(chunks) :
            chunks[i].name = name /\ \A j \in 1..(i - 1) : chunks[j].name # name) - 1
    ELSE -1

\* Array.prototype.splice(start, 0, ...items)
Splice(chunks, start, items) ==
  LET n == Len(chunks)
      at == IF start < 0 THEN (IF n + start < 0 THEN 0 ELSE n + start)
            ELSE (IF start > n THEN n ELSE start)
  IN SubSeq(chunks, 1, at) \o items \o SubSeq(chunks, at + 1, n)


-----------------------------------------------------------------------------
(* Server-side codec: utils/metadata *)

EmbedOptions(imagePath, note, isEncrypted, outputPath) ==
  [imagePath |-> imagePath, note |-> note, isEncrypted |-> isEncrypted,
   outputPath |-> outputPath]

\* what an embed call did: the file system after it, and the path it
\* returned or the error it threw
Embedded(fsys, out) == [ok |-> TRUE, fs |-> fsys, out |-> out, error |-> "none"]
EmbedThrew(fsys, e) == [ok |-> FALSE, fs |-> fsys, out |-> NoPath, error |-> e]

ExtractResult(note, isEncrypted) == [note |-> note, isEncrypted |-> isEncrypted]
NoNote == ExtractResult(Null, FALSE)

\* exiftool.write(path, tags): the given tags replace the file's, the others stay
ExifWritable(file) == file.kind = "jpeg"
ExifWrite(file, names, value) ==
  JpegFile([t \in TagNames |->
              IF t \in names THEN Present(value[t]) ELSE file.tags[t]])

\* the tags embedNoteInJPEG hands to exiftool.write
NoteTags(options) ==
  [t \in {"ImageDescription", "UserComment", "XMP:Description",
          "XMP:MemoryInkNote", "XMP:MemoryInkEncrypted",
          "XMP:MemoryInkVersion"} |->
     CASE t = "XMP:MemoryInkEncrypted" ->
            (IF options.isEncrypted THEN StrTrue ELSE StrFalse)
       [] t = "XMP:MemoryInkVersion" -> StrVersion
       [] OTHER -> options.note]

\* const output = outputPath || imagePath.replace(...)
JpegOutput(options) ==
  IF options.outputPath # NoPath THEN options.outputPath
  ELSE ReplaceExt(options.imagePath, {".jpg", ".jpeg"}, ".jpg")

PngOutput(options) ==
  IF options.outputPath # NoPath THEN options.outputPath
  ELSE ReplaceExt(options.imagePath, {".png"}, ".png")

embedNoteInJPEG(fsys, options) ==
  LET output == JpegOutput(options)
      tags == NoteTags(options)
  IN IF options.imagePath \notin DOMAIN fsys
       THEN EmbedThrew(fsys, "Failed to embed note in JPEG")
     ELSE LET copied == (output :> fsys[options.imagePath]) @@ fsys
          IN IF ~ExifWritable(copied[output])
               THEN EmbedThrew(copied, "Failed to embed note in JPEG")
               ELSE Embedded((output :> ExifWrite(copied[output], DOMAIN tags, tags))
                               @@ copied, output)

\* the filter that is to remove the chunks of an earlier embed
KeepChunk(chunk) == chunk.name \notin {"mInk", "mIne", "mInv"}

embedNoteInPNG(fsys, options) ==
  LET output == PngOutput(options)
  IN IF \/ options.imagePath \notin DOMAIN fsys
        \/ ~PngParseable(fsys[options.imagePath])
        \/ ~CanEncodeText(KwNote, options.note)
       THEN EmbedThrew(fsys, "Failed to embed note in PNG")
     ELSE
       LET chunks == pngChunksExtract(fsys[options.imagePath])
           filteredChunks == SelectSeq(chunks, KeepChunk)
           noteChunk == pngChunkTextEncode(KwNote, options.note)
           encryptedChunk ==
             pngChunkTextEncode(KwEncrypted,
                                IF options.isEncrypted THEN StrTrue ELSE StrFalse)
           versionChunk == pngChunkTextEncode(KwVersion, StrVersion)
           iendIndex == FindIndexByName(filteredChunks, "IEND")
           spliced == Splice(filteredChunks, iendIndex,
                             <<noteChunk, encryptedChunk, versionChunk>>)
       IN Embedded((output :> pngChunksEncode(spliced)) @@ fsys, output)

\* if (metadata[field])
Truthy(entry) == entry.present /\ entry.v # <<>>

noteFields ==
  <<"XMP:MemoryInkNote", "ImageDescription", "UserComment", "XMP:Description">>

extractNoteFromJPEG(fsys, imagePath) ==
  IF imagePath \notin DOMAIN fsys \/ fsys[imagePath].kind # "jpeg"
    THEN NoNote
  ELSE
    LET metadata == fsys[imagePath].tags
        found == {i \in 1..Len(noteFields) : Truthy(metadata[noteFields[i]])}
        first == CHOOSE i \in found : \A j \in found : i <= j
        note == IF found = {} THEN Null ELSE metadata[noteFields[first]].v
        isEncrypted == metadata["XMP:MemoryInkEncrypted"] = Present(StrTrue)
    IN ExtractResult(note, isEncrypted)

\* the loop with a decode that is caught per chunk: a chunk that cannot be
\* decoded is passed over
RECURSIVE ScanTextChunks_skipsBadChunk(_, _)
ScanTextChunks_skipsBadChunk(chunks, acc) ==
  IF chunks = <<>> THEN acc
  ELSE
    LET chunk == Head(chunks)
        textData == pngChunkTextDecode(chunk.data)
    IN IF chunk.name \notin {"tEXt", "iTXt"} \/ ~textData.ok
         THEN ScanTextChunks_skipsBadChunk(Tail(chunks), acc)
       ELSE IF textData.keyword = KwNote
         THEN ScanTextChunks_skipsBadChunk(Tail(chunks),
                                           [acc EXCEPT !.note = textData.text])
       ELSE IF textData.keyword = KwEncrypted
         THEN ScanTextChunks_skipsBadChunk(
                Tail(chunks),
                [acc EXCEPT !.isEncrypted = (textData.text = StrTrue)])
       ELSE ScanTextChunks_skipsBadChunk(Tail(chunks), acc)

\* the loop over the chunks; acc.ok turns FALSE when decode throws
RECURSIVE ScanTextChunks(_, _)
ScanTextChunks(chunks, acc) ==
  IF chunks = <<>> \/ ~acc.ok THEN acc
  ELSE
    LET chunk == Head(chunks)
        textData == pngChunkTextDecode(chunk.data)
    IN IF chunk.name \notin {"tEXt", "iTXt"} THEN ScanTextChunks(Tail(chunks), acc)
       ELSE IF ~textData.ok THEN [acc EXCEPT !.ok = FALSE]
       ELSE IF textData.keyword = KwNote
         THEN ScanTextChunks(Tail(chunks), [acc EXCEPT !.note = textData.text])
       ELSE IF textData.keyword = KwEncrypted
         THEN ScanTextChunks(Tail(chunks),
                             [acc EXCEPT !.isEncrypted = (textData.text = StrTrue)])
       ELSE ScanTextChunks(Tail(chunks), acc)

extractNoteFromPNG(fsys, imagePath) ==
  IF imagePath \notin DOMAIN fsys \/ ~PngParseable(fsys[imagePath])
    THEN NoNote
  ELSE
    LET scan == ScanTextChunks(pngChunksExtract(fsys[imagePath]),
                               [ok |-> TRUE, note |-> Null, isEncrypted |-> FALSE])
    IN IF scan.ok THEN ExtractResult(scan.note, scan.isEncrypted) ELSE NoNote

\* embedNote with the JPEG case as the default of the switch
embedNote_jpegByDefault(fsys, options) ==
  LET ext == Lower(options.imagePath.ext)
  IN IF ext = ".png" THEN embedNoteInPNG(fsys, options)
     ELSE embedNoteInJPEG(fsys, options)

embedNote(fsys, options) ==
  LET ext == Lower(options.imagePath.ext)
  IN CASE ext \in {".jpg", ".jpeg"} -> embedNoteInJPEG(fsys, options)
       [] ext = ".png" -> embedNoteInPNG(fsys, options)
       [] OTHER -> EmbedThrew(fsys, "Unsupported image format")

extractNote(fsys, imagePath) ==
  LET ext == Lower(imagePath.ext)
  IN CASE ext \in {".jpg", ".jpeg"} -> extractNoteFromJPEG(fsys, imagePath)
       [] ext = ".png" -> extractNoteFromPNG(fsys, imagePath)
       [] OTHER -> NoNote

-----------------------------------------------------------------------------
(* Client-side codec: frontend/lib/api.ts, on data URLs *)

\* fileToDataURL: the MIME type the browser gives the file, which it takes
\* from the file name, and the bytes of the file
DataUrl(ext, file) ==
  [mime |-> CASE Lower(ext) = ".png" -> "image/png"
              [] Lower(ext) \in {".jpg", ".jpeg"} -> "image/jpeg"
              [] Lower(ext) = ".gif" -> "image/gif"
              [] OTHER -> "application/octet-stream",
   body |-> file]

ClientEmbedded(url) == [ok |-> TRUE, url |-> url, error |-> "none"]
ClientEmbedThrew(e) ==
  [ok |-> FALSE, url |-> DataUrl("", GarbageFile), error |-> e]

StrEncrypted == Str(<<"E", "N", "C", "R", "Y", "P", "T", "E", "D">>)
StrPlaintext == Str(<<"P", "L", "A", "I", "N", "T", "E", "X", "T">>)
StrSoftware ==
  Str(<<"M", "e", "m", "o", "r", "y", "I", "n", "k", " ", "v", "1", ".", "0">>)

\* piexif.load throws on what is no JPEG
PiexifLoadable(file) == file.kind = "jpeg"

\* piexif.insert(piexif.dump(exifObj), imageDataUrl): the EXIF block is
\* written anew from exifObj, the rest of the file stays
PiexifInsert(file, names, value) == ExifWrite(file, names, value)

\* dumps: whether piexif.dump takes the string given for XPComment, a tag of
\* type Byte; when it does not, every call ends in the catch
clientEmbedNoteInJPEG(imageDataUrl, note, isEncrypted, dumps) ==
  LET tags == [t \in {"ImageDescription", "XPComment", "Software", "Artist"} |->
                 CASE t = "Software" -> StrSoftware
                   [] t = "Artist" ->
                        (IF isEncrypted THEN StrEncrypted ELSE StrPlaintext)
                   [] OTHER -> note]
  IN IF ~PiexifLoadable(imageDataUrl.body) \/ ~dumps
       THEN ClientEmbedThrew("Failed to embed note in JPEG")
       ELSE ClientEmbedded([mime |-> "image/jpeg",
                            body |-> PiexifInsert(imageDataUrl.body, DOMAIN tags, tags)])

clientEmbedNoteInPNG(imageDataUrl, note, isEncrypted) ==
  IF ~PngParseable(imageDataUrl.body) \/ ~CanEncodeText(KwNote, note)
    THEN ClientEmbedThrew("Failed to embed note in PNG")
  ELSE
    LET chunks == pngChunksExtract(imageDataUrl.body)
        filteredChunks == SelectSeq(chunks, KeepChunk)
        noteChunk == pngChunkTextEncode(KwNote, note)
        encryptedChunk ==
          pngChunkTextEncode(KwEncrypted, IF isEncrypted THEN StrTrue ELSE StrFalse)
        versionChunk == pngChunkTextEncode(KwVersion, StrVersion)
        iendIndex == FindIndexByName(filteredChunks, "IEND")
        spliced == Splice(filteredChunks, iendIndex,
                          <<noteChunk, encryptedChunk, versionChunk>>)
    IN ClientEmbedded([mime |-> "image/png", body |-> pngChunksEncode(spliced)])

clientExtractNoteFromJPEG(imageDataUrl) ==
  IF ~PiexifLoadable(imageDataUrl.body) THEN NoNote
  ELSE
    LET zeroth == imageDataUrl.body.tags
        note == IF Truthy(zeroth["ImageDescription"])
                  THEN zeroth["ImageDescription"].v
                ELSE IF zeroth["XPComment"].present
                  THEN zeroth["XPComment"].v
                ELSE Null
    IN ExtractResult(note, zeroth["Artist"] = Present(StrEncrypted))

clientExtractNoteFromPNG(imageDataUrl) ==
  IF ~PngParseable(imageDataUrl.body) THEN NoNote
  ELSE
    LET scan == ScanTextChunks(pngChunksExtract(imageDataUrl.body),
                               [ok |-> TRUE, note |-> Null, isEncrypted |-> FALSE])
    IN IF scan.ok THEN ExtractResult(scan.note, scan.isEncrypted) ELSE NoNote

\* imageDataUrl.startsWith('data:image/jpeg') || ...('data:image/jpg')
IsJpegUrl(imageDataUrl) == imageDataUrl.mime \in {"image/jpeg", "image/jpg"}
IsPngUrl(imageDataUrl) == imageDataUrl.mime = "image/png"

clientEmbedNote(imageDataUrl, note, isEncrypted, dumps) ==
  IF IsJpegUrl(imageDataUrl)
    THEN clientEmbedNoteInJPEG(imageDataUrl, note, isEncrypted, dumps)
  ELSE IF IsPngUrl(imageDataUrl)
    THEN clientEmbedNoteInPNG(imageDataUrl, note, isEncrypted)
  ELSE ClientEmbedThrew("Unsupported image format for client-side embedding")

clientExtractNote(imageDataUrl) ==
  IF IsJpegUrl(imageDataUrl) THEN clientExtractNoteFromJPEG(imageDataUrl)
  ELSE IF IsPngUrl(imageDataUrl) THEN clientExtractNoteFromPNG(imageDataUrl)
  ELSE NoNote


-----------------------------------------------------------------------------
(* Command-line extractor: cli/src/index.ts, on files of the local disk *)

\* the same fields in the same order as the server, and the same flag
extractFromJPEG(fsys, imagePath) ==
  IF imagePath \notin DOMAIN fsys \/ fsys[imagePath].kind # "jpeg"
    THEN NoNote
  ELSE
    LET metadata == fsys[imagePath].tags
        found == {i \in 1..Len(noteFields) : Truthy(metadata[noteFields[i]])}
        first == CHOOSE i \in found : \A j \in found : i <= j
        note == IF found = {} THEN Null ELSE metadata[noteFields[first]].v
        isEncrypted == metadata["XMP:MemoryInkEncrypted"] = Present(StrTrue)
    IN ExtractResult(note, isEncrypted)

\* one try around the whole loop: a chunk that cannot be decoded ends it
extractFromPNG(fsys, imagePath) ==
  IF imagePath \notin DOMAIN fsys \/ ~PngParseable(fsys[imagePath])
    THEN NoNote
  ELSE
    LET scan == ScanTextChunks(pngChunksExtract(fsys[imagePath]),
                               [ok |-> TRUE, note |-> Null, isEncrypted |-> FALSE])
    IN IF scan.ok THEN ExtractResult(scan.note, scan.isEncrypted) ELSE NoNote

cliExtractNote(fsys, imagePath) ==
  LET ext == Lower(imagePath.ext)
  IN CASE ext \in {".jpg", ".jpeg"} -> extractFromJPEG(fsys, imagePath)
       [] ext = ".png" -> extractFromPNG(fsys, imagePath)
       [] OTHER -> NoNote


-----------------------------------------------------------------------------
(* The codec applied to an image over and over: each embed reads the       *)
(* current image and its output becomes the current image                  *)

\* the notes given to embed: the empty one, two that differ, one with a
\* character above U+00FF
Notes == {Str(<<>>), Str(<<"a">>), Str(<<"a", "a">>), Str(<<"w">>)}

IHDR == [name |-> "IHDR", data |-> <<>>]
IDAT == [name |-> "IDAT", data |-> <<>>]
IEND == [name |-> "IEND", data |-> <<>>]

\* a text chunk of another tool, and a private chunk
TitleChunk == pngChunkTextEncode(Str(<<"T", "i", "t", "l", "e">>), Str(<<"a">>))
PrivateChunk == [name |-> "mInk", data |-> <<>>]
\* a text chunk with a second zero byte, as every iTXt chunk has
BadTextChunk ==
  [name |-> "iTXt",
   data |-> <<CharCode(Lit("T")), NUL, NUL, CharCode(Lit("a"))>>]

InitialFiles ==
  (Path("plain", 0, ".png") :> PngFile(<<IHDR, IDAT, IEND>>))
  @@ (Path("titled", 0, ".PNG") :>
        PngFile(<<IHDR, TitleChunk, PrivateChunk, IDAT, IEND>>))
  @@ (Path("trailing", 0, ".png") :> PngFile(<<IHDR, IDAT, IEND, TitleChunk>>))
  @@ (Path("endless", 0, ".png") :> PngFile(<<IHDR, IDAT>>))
  @@ (Path("badtext", 0, ".png") :>
        PngFile(<<IHDR, pngChunkTextEncode(KwNote, Str(<<"a">>)),
                  BadTextChunk, IDAT, IEND>>))
  @@ (Path("photo", 0, ".jpg") :> JpegFile(NoTags))
  @@ (Path("tagged", 0, ".jpeg") :>
        JpegFile([NoTags EXCEPT !["ImageDescription"] = Present(Str(<<"a", "a">>)),
                                !["Copyright"] = Present(Str(<<"w">>))]))
  @@ (Path("commented", 0, ".jpg") :>
        JpegFile([NoTags EXCEPT !["UserComment"] = Present(Str(<<"a">>))]))
  @@ (Path("recaptioned", 0, ".jpg") :>
        JpegFile([NoTags EXCEPT
                    !["XMP:MemoryInkNote"] = Present(Str(<<"a">>)),
                    !["XMP:MemoryInkEncrypted"] = Present(StrFalse),
                    !["XMP:MemoryInkVersion"] = Present(StrVersion),
                    !["ImageDescription"] = Present(Str(<<"w">>)),
                    !["UserComment"] = Present(Str(<<"a">>)),
                    !["XMP:Description"] = Present(Str(<<"a">>))]))
  @@ (Path("broken", 0, ".jpg") :> GarbageFile)
  @@ (Path("anim", 0, ".gif") :> GifFile)

\* paths at which there is no file
MissingPaths == {Path("missing", 0, ".png"), Path("missing", 0, ".jpg")}

CodecInit ==
  /\ CipherIdle
  /\ ProcsIdle
  /\ RoutesIdle
  /\ fs = InitialFiles
  /\ cur \in DOMAIN InitialFiles \cup MissingPaths
  /\ hist = <<>>
  /\ res = NoRes

EmbedDone(op, r, note, isEncrypted) ==
  /\ fs' = r.fs
  /\ cur' = IF r.ok THEN r.out ELSE cur
  /\ hist' = IF r.ok THEN Append(hist, [note |-> note, isEncrypted |-> isEncrypted])
             ELSE hist
  /\ res' = [op |-> op, ok |-> r.ok, error |-> r.error, note |-> note,
             isEncrypted |-> isEncrypted, input |-> cur, path |-> r.out]
  /\ UNCHANGED cipherVars
  /\ UNCHANGED routeVars
  /\ UNCHANGED <<procs, auth>>

\* the output paths a caller passes: none, or one of its own choosing
\* (on the first embed of an image)
OutputPaths ==
  {NoPath} \cup (IF hist = <<>> THEN {Path("copy", cur.emb + 1, cur.ext)} ELSE {})

ServerEmbed(note, isEncrypted, outputPath) ==
  /\ Len(hist) < MaxEmbeds
  /\ EmbedDone("embed",
               embedNote(fs, EmbedOptions(cur, note, isEncrypted, outputPath)),
               note, isEncrypted)

\* the browser reads the file into a data URL, embeds, and saves the result
ClientEmbed(note, isEncrypted, dumps) ==
  /\ Len(hist) < MaxEmbeds
  /\ cur \in DOMAIN fs
  /\ LET r == clientEmbedNote(DataUrl(cur.ext, fs[cur]), note, isEncrypted, dumps)
         out == Path(cur.stem, cur.emb + 1, cur.ext)
     IN EmbedDone("clientEmbed",
                  IF r.ok THEN Embedded((out :> r.url.body) @@ fs, out)
                  ELSE EmbedThrew(fs, r.error),
                  note, isEncrypted)

ExtractDone(op, r) ==
  /\ res' = [op |-> op, ok |-> TRUE, error |-> "none", note |-> r.note,
             isEncrypted |-> r.isEncrypted, input |-> cur, path |-> cur]
  /\ UNCHANGED <<fs, cur, hist>>
  /\ UNCHANGED cipherVars
  /\ UNCHANGED routeVars
  /\ UNCHANGED <<procs, auth>>

Extract == ExtractDone("extract", extractNote(fs, cur))

\* the upload page: the browser reads the chosen file and extracts from it
ClientExtract ==
  /\ cur \in DOMAIN fs
  /\ ExtractDone("clientExtract", clientExtractNote(DataUrl(cur.ext, fs[cur])))

\* the extract command: a path at which there is no file ends the process
\* with status 1 before anything is read
CliExtract ==
  IF cur \notin DOMAIN fs
    THEN /\ res' = [op |-> "cliExtract", ok |-> FALSE, error |-> "File not found",
                    note |-> Null, isEncrypted |-> FALSE, input |-> cur,
                    path |-> cur]
         /\ UNCHANGED <<fs, cur, hist>>
         /\ UNCHANGED cipherVars
         /\ UNCHANGED routeVars
         /\ UNCHANGED <<procs, auth>>
    ELSE ExtractDone("cliExtract", cliExtractNote(fs, cur))

CodecNext ==
  \/ \E note \in Notes, isEncrypted \in BOOLEAN, outputPath \in OutputPaths :
       ServerEmbed(note, isEncrypted, outputPath)
  \/ \E note \in Notes, isEncrypted \in BOOLEAN, dumps \in BOOLEAN :
       ClientEmbed(note, isEncrypted, dumps)
  \/ Extract
  \/ ClientExtract
  \/ CliExtract

SpecCodec == CodecInit /\ [][CodecNext]_vars


-----------------------------------------------------------------------------
(* Claims about the codec (checked under SpecCodec) *)

ReservedKeywords == {KwNote, KwEncrypted, KwVersion}

\* the number of text chunks of the file that carry keyword kw
KeywordCount(file, kw) ==
  Cardinality({i \in 1..Len(file.chunks) :
                 /\ file.chunks[i].name = "tEXt"
                 /\ pngChunkTextDecode(file.chunks[i].data).keyword = kw})

LastEmbed == hist[Len(hist)]

\* C1: the output of a PNG embed whose input is itself the output of an
\* earlier embed holds exactly one chunk for each reserved keyword
\* (MemoryInkNote, MemoryInkEncrypted, MemoryInkVersion): three in all.
C1_OneChunkPerReservedKeyword ==
  (/\ res.op \in {"embed", "clientEmbed"} /\ res.ok
   /\ fs[cur].kind = "png"
   /\ Len(hist) >= 2)
    => \A kw \in ReservedKeywords : KeywordCount(fs[cur], kw) = 1

\* C2: after embed(n1, f1) and then embed(n2, f2) on its output, n1 # n2,
\* extract on the final image returns exactly (n2, f2), for JPEG and PNG.
C2_LastEmbedWins ==
  (/\ res.op = "extract"
   /\ Len(hist) >= 2
   /\ hist[Len(hist) - 1].note # LastEmbed.note)
    => /\ res.note = LastEmbed.note
       /\ res.isEncrypted = LastEmbed.isEncrypted

\* C3: for every note s, the empty string included, embedNoteInPNG(image, s,
\* isEncrypted = false) produces an image from which extractNoteFromPNG
\* returns note = s and isEncrypted = false.
C3_PngPlaintextRoundTrip ==
  (/\ res.op = "embed"
   /\ res.input \in DOMAIN fs
   /\ PngParseable(fs[res.input])
   /\ ~res.isEncrypted)
    => /\ res.ok
       /\ extractNoteFromPNG(fs, res.path) = ExtractResult(res.note, FALSE)

\* C4: for every note s, the empty string included, embedNoteInJPEG(image,
\* s, isEncrypted = false) produces an image from which extractNoteFromJPEG
\* returns note = s (not null) and isEncrypted = false, whatever tags the
\* source image carried.
C4_JpegPlaintextRoundTrip ==
  (/\ res.op = "embed"
   /\ res.input \in DOMAIN fs
   /\ fs[res.input].kind = "jpeg"
   /\ ~res.isEncrypted)
    => /\ res.ok
       /\ extractNoteFromJPEG(fs, res.path) = ExtractResult(res.note, FALSE)


\* C11: the dispatcher's extract on a path whose extension is not .jpg,
\* .jpeg or .png fails with an error; what the caller gets differs from the
\* result for an image that holds no note.
C11_ExtractUnsupportedIsError ==
  (res.op = "extract" /\ Lower(res.input.ext) \notin {".jpg", ".jpeg", ".png"})
    => <<res.ok, res.note, res.isEncrypted>> # <<TRUE, Null, FALSE>>

UnsupportedErrors ==
  {"Unsupported image format",
   "Unsupported image format for client-side embedding"}

\* C12: the dispatcher's embed (server and client) on a path or data URL
\* whose format is not JPEG or PNG throws the unsupported-format error and
\* leaves the file system as it was; a path with a supported extension,
\* in upper or lower case, never gets that error.
C12_EmbedUnsupportedThrowsNoWrite ==
  [][res'.op \in {"embed", "clientEmbed"}
       => IF Lower(cur.ext) \notin {".jpg", ".jpeg", ".png"}
            THEN ~res'.ok /\ res'.error \in UnsupportedErrors /\ fs' = fs
            ELSE res'.error \notin UnsupportedErrors]_vars

C12_Witness ==
  /\ res.op = "embed"
  /\ res.input.ext = ".gif"
  /\ res.error \in UnsupportedErrors

\* a text chunk that decode throws on
Undecodable(chunk) ==
  chunk.name \in {"tEXt", "iTXt"} /\ ~pngChunkTextDecode(chunk.data).ok

\* inputs on which reading the metadata fails: no file at the path, a .png
\* that is no chunk stream or holds an undecodable text chunk, a .jpg whose
\* tag container cannot be read
Unreadable(path) ==
  \/ path \notin DOMAIN fs
  \/ /\ Lower(path.ext) = ".png"
     /\ \/ ~PngParseable(fs[path])
        \/ \E i \in 1..Len(pngChunksExtract(fs[path])) :
             Undecodable(pngChunksExtract(fs[path])[i])
  \/ /\ Lower(path.ext) \in {".jpg", ".jpeg"}
     /\ fs[path].kind # "jpeg"

\* C13: extraction never throws to the caller: on a missing file, an
\* unreadable JPEG tag container, an unparseable PNG chunk stream or an
\* undecodable text chunk, the extractors and the dispatcher's extract, on
\* the server and in the client, return exactly {note: null, isEncrypted:
\* false}.
C13_ExtractFailureIsNoNote ==
  (res.op \in {"extract", "clientExtract"} /\ Unreadable(res.input))
    => /\ res.ok
       /\ res.note = Null
       /\ ~res.isEncrypted

C13_Witness ==
  /\ res.op = "extract"
  /\ res.input = Path("badtext", 0, ".png")
  /\ res.note = Null

\* the first of the fields, in the order MemoryInkNote, image description,
\* user comment, XMP description, that holds a non-empty value
HeldFields(file) ==
  {i \in 1..Len(noteFields) :
     file.tags[noteFields[i]].present /\ file.tags[noteFields[i]].v # <<>>}

FirstHeld(file) ==
  file.tags[noteFields[CHOOSE i \in HeldFields(file) :
                         \A j \in HeldFields(file) : i <= j]].v

\* C14: on a JPEG every implementation (server, CLI, client) returns as
\* note the value of the first non-empty field in the order MemoryInkNote,
\* image description, user comment, XMP description; when no field holds a
\* value the result is note = null, isEncrypted = false.
C14_JpegFieldOrder ==
  (/\ res.op \in {"extract", "clientExtract"}
   /\ res.input \in DOMAIN fs
   /\ Lower(res.input.ext) \in {".jpg", ".jpeg"}
   /\ fs[res.input].kind = "jpeg")
    => IF HeldFields(fs[res.input]) = {}
         THEN res.note = Null /\ ~res.isEncrypted
         ELSE res.note = FirstHeld(fs[res.input])

\* C15: in every output of PNG embed (server and client) the three new
\* chunks stand together, in the order MemoryInkNote, MemoryInkEncrypted,
\* MemoryInkVersion, right before the IEND chunk, which is the last chunk
\* and the only IEND; this holds for every parseable input, also one
\* with chunks after its IEND.
C15_NewChunksBeforeIend ==
  (/\ res.op \in {"embed", "clientEmbed"} /\ res.ok
   /\ Lower(res.input.ext) = ".png")
    => LET out == fs[res.path].chunks
           n == Len(out)
       IN /\ n >= 4
          /\ out[n].name = "IEND"
          /\ \A i \in 1..(n - 1) : out[i].name # "IEND"
          /\ out[n - 3] = pngChunkTextEncode(KwNote, res.note)
          /\ out[n - 2] = pngChunkTextEncode(KwEncrypted,
                                             IF res.isEncrypted THEN StrTrue
                                             ELSE StrFalse)
          /\ out[n - 1] = pngChunkTextEncode(KwVersion, StrVersion)

C15_Witness ==
  /\ res.op \in {"embed", "clientEmbed"} /\ res.ok
  /\ res.input = Path("trailing", 0, ".png")

\* a chunk the codec owns: a text chunk with a reserved keyword
IsMemoryInkChunk(chunk) ==
  /\ chunk.name = "tEXt"
  /\ pngChunkTextDecode(chunk.data).ok
  /\ pngChunkTextDecode(chunk.data).keyword \in ReservedKeywords

IsForeignChunk(chunk) == ~IsMemoryInkChunk(chunk)

\* C16: PNG embed preserves foreign metadata: the chunks of the input that
\* are no MemoryInk chunks (whatever their type, and text chunks with a
\* keyword outside the reserved set) are in the output with the same type
\* and data and in the same order.
C16_ForeignChunksPreserved ==
  (/\ res.op \in {"embed", "clientEmbed"} /\ res.ok
   /\ Lower(res.input.ext) = ".png")
    => SelectSeq(pngChunksExtract(fs[res.input]), IsForeignChunk)
         = SelectSeq(fs[res.path].chunks, IsForeignChunk)

\* C17: embed never modifies its input: with no output path given, or one
\* that differs from the input path, the original file is the same after
\* the embed as before, whether the embed succeeds or fails, and the path
\* the embed returns differs from the input path.
C17_InputUntouched ==
  [][(res'.op = "embed" /\ cur \in DOMAIN fs)
       => /\ cur \in DOMAIN fs'
          /\ fs'[cur] = fs[cur]
          /\ res'.ok => res'.path # cur]_vars

C17_Witness ==
  /\ res.op = "embed" /\ res.ok
  /\ res.input = Path("titled", 0, ".PNG")
  /\ res.path = Path("titled", 1, ".png")

\* C29: for every pairing of a JPEG writer (client embed, server embed) with
\* a JPEG reader (client extract, server extract, command-line extract), the
\* isEncrypted that the reader returns for the image the writer produced is
\* the flag that was passed to the writer.
C29_JpegFlagSharedByAll ==
  (/\ res.op \in {"extract", "clientExtract", "cliExtract"} /\ res.ok
   /\ hist # <<>>
   /\ cur \in DOMAIN fs
   /\ fs[cur].kind = "jpeg")
    => res.isEncrypted = LastEmbed.isEncrypted

-----------------------------------------------------------------------------
(* Routes: routes/notes, routes/download, routes/images.  One user, whose  *)
(* requests the server handles one after the other.                        *)

MaxImages == 2
MaxSaves == 1
MaxDownloads == 1

\* skip: 10
KeepVersions == 10

\* req.query.password / req.body.password left out
NoPassword == ""

createNoteHash(content) == <<[sha256 |-> content]>>

\* a check that accepts every hash
verifyNoteHash_acceptsAll(content, hash) == TRUE

verifyNoteHash(content, hash) == createNoteHash(content) = hash

EncryptedPrefix == Str(<<"E", "N", "C", "R", "Y", "P", "T", "E", "D", ":">>)
EncryptedPlaceholder ==
  Str(<<"[", "E", "N", "C", "R", "Y", "P", "T", "E", "D", "]">>)

\* the request and the status and error of its response
Respond(route, status, error, imageId, password) ==
  [route |-> route, status |-> status, error |-> error, imageId |-> imageId,
   password |-> password, content |-> <<>>, isEncrypted |-> FALSE,
   version |-> 0]

\* a response sent before anything was written
Reject(route, status, error, imageId, password) ==
  /\ resp' = Respond(route, status, error, imageId, password)
  /\ UNCHANGED <<db, ghost, fs, rng, held, now, timers>>

Prov(s, p, enc, via) == [s |-> s, p |-> p, enc |-> enc, via |-> via]

NotesOf(imageId) == {i \in 1..Len(db.notes) : db.notes[i].imageId = imageId}

\* prisma.note.findFirst({ where: { imageId, userId } }); 0 when there is none
FindNote(imageId) ==
  IF NotesOf(imageId) = {} THEN 0
  ELSE CHOOSE i \in NotesOf(imageId) : \A j \in NotesOf(imageId) : i <= j

\* image.notes, orderBy createdAt desc, take 1; 0 when there is none
LatestNote(imageId) ==
  IF NotesOf(imageId) = {} THEN 0
  ELSE CHOOSE i \in NotesOf(imageId) : \A j \in NotesOf(imageId) : i >= j

VersionsOf(versions, noteId) ==
  {i \in 1..Len(versions) : versions[i].noteId = noteId}

\* existingNote.versions[0]?.version || existingNote.version
CurrentVersion(noteId) ==
  LET own == VersionsOf(db.versions, noteId)
      top == CHOOSE i \in own : \A j \in own : db.versions[i].version >= db.versions[j].version
  IN IF own # {} /\ db.versions[top].version # 0
       THEN db.versions[top].version
       ELSE db.notes[noteId].version

\* findMany orderBy version desc, skip 10: the sets of rows the clean-up can
\* delete; rows of equal version come in an order the database chooses
OldVersions(versions, noteId) ==
  LET own == VersionsOf(versions, noteId)
      excess == IF Cardinality(own) > KeepVersions
                  THEN Cardinality(own) - KeepVersions ELSE 0
  IN {old \in SUBSET own :
        /\ Cardinality(old) = excess
        /\ \A i \in old, j \in own \ old :
             versions[i].version <= versions[j].version}

RECURSIVE DeleteRows(_, _)
DeleteRows(rows, ids) ==
  IF rows = <<>> THEN <<>>
  ELSE LET rest == DeleteRows(SubSeq(rows, 1, Len(rows) - 1), ids)
       IN IF Len(rows) \in ids THEN rest ELSE Append(rest, rows[Len(rows)])


\* prisma.note.create with the columns the caller leaves out: null, version 1
NewNote(imageId) ==
  [imageId |-> imageId, content |-> Null, isEncrypted |-> FALSE, salt |-> Null,
   iv |-> Null, authTag |-> Null, noteHash |-> Null, version |-> 1]

\* originalUrl.replace(/(\.[^.]+)$/, '_embedded$1')
EmbeddedPathOf(originalUrl) ==
  Path(originalUrl.stem, originalUrl.emb + 1, originalUrl.ext)

\* POST /api/notes/:imageId, from the lookup of the existing note on
SaveAccepted(imageId, content, encrypt, password) ==
  LET image == db.images[imageId]
      existingNote == FindNote(imageId)
      encrypted == encryptNote(content, password, rng)
      noteData ==
        IF encrypt
          THEN [content |-> encrypted.encryptedData, isEncrypted |-> TRUE,
                salt |-> encrypted.salt, iv |-> encrypted.iv,
                authTag |-> encrypted.authTag,
                noteHash |-> createNoteHash(content)]
          ELSE [content |-> content, isEncrypted |-> FALSE,
                noteHash |-> createNoteHash(content)]
      version == IF existingNote = 0 THEN 1
                 ELSE CurrentVersion(existingNote) + 1
      noteId == IF existingNote = 0 THEN Len(db.notes) + 1 ELSE existingNote
      before == IF existingNote = 0 THEN NewNote(imageId)
                ELSE db.notes[existingNote]
      note == [f \in DOMAIN before |->
                 IF f = "version" THEN version
                 ELSE IF f \in DOMAIN noteData THEN noteData[f]
                 ELSE before[f]]
      withHistory ==
        IF existingNote = 0 THEN db.versions
        ELSE Append(db.versions,
                    [noteId |-> existingNote,
                     content |-> db.notes[existingNote].content,
                     version |-> db.notes[existingNote].version])
      noteToEmbed == IF encrypt THEN EncryptedPrefix \o noteData.content
                     ELSE content
      r == embedNote(fs, EmbedOptions(image.originalUrl, noteToEmbed, encrypt,
                                      EmbeddedPathOf(image.originalUrl)))
      prov == Prov(content, IF encrypt THEN password ELSE NoPassword,
                   encrypt, "save")
  IN /\ rng' = IF encrypt THEN rng + 2 ELSE rng
     /\ \E oldVersions \in OldVersions(withHistory, noteId) :
          db' = [images |-> IF r.ok
                              THEN [db.images EXCEPT ![imageId].embeddedUrl = r.out]
                              ELSE db.images,
                 notes |-> IF existingNote = 0 THEN Append(db.notes, note)
                           ELSE [db.notes EXCEPT ![existingNote] = note],
                 versions |-> DeleteRows(withHistory, oldVersions)]
     /\ fs' = r.fs
     /\ ghost' =
          [files |-> [path \in DOMAIN r.fs |->
                        IF r.ok /\ path = r.out THEN prov
                        ELSE IF path \in DOMAIN ghost.files THEN ghost.files[path]
                        ELSE ghost.files[image.originalUrl]],
           notes |-> IF existingNote = 0 THEN Append(ghost.notes, prov)
                     ELSE [ghost.notes EXCEPT ![existingNote] = prov],
           saves |-> ghost.saves + 1]
     /\ resp' = [Respond("saveNote", 200, "none", imageId, password) EXCEPT
                   !.content = IF encrypt THEN EncryptedPlaceholder ELSE content,
                   !.isEncrypted = encrypt,
                   !.version = version]
     /\ UNCHANGED <<held, now, timers>>

\* POST /api/notes/:imageId
SaveHandler(imageId, content, encrypt, password) ==
  /\ UNCHANGED <<calls, dec, cur, hist, res, procs, auth>>
  /\ IF content = <<>>
       THEN Reject("saveNote", 400, "Note content is required", imageId, password)
     ELSE IF imageId \notin 1..Len(db.images)
       THEN Reject("saveNote", 404, "Image not found", imageId, password)
     ELSE IF encrypt /\ password = NoPassword
       THEN Reject("saveNote", 400, "Password required for encryption",
                   imageId, password)
     ELSE SaveAccepted(imageId, content, encrypt, password)

SaveNote(imageId, content, encrypt, password) ==
  /\ ghost.saves < MaxSaves
  /\ SaveHandler(imageId, content, encrypt, password)

\* GET /api/notes/:imageId
GetNote(imageId, password) ==
  LET noteId == FindNote(imageId)
      note == db.notes[noteId]
      decrypted == decryptNote([encryptedData |-> note.content,
                                salt |-> note.salt, iv |-> note.iv,
                                authTag |-> note.authTag, password |-> password])
      found(content) ==
        [Respond("getNote", 200, "none", imageId, password) EXCEPT
           !.content = content,
           !.isEncrypted = note.isEncrypted,
           !.version = note.version]
  IN /\ resp' =
          IF noteId = 0
            THEN Respond("getNote", 404, "Note not found", imageId, password)
          ELSE IF ~note.isEncrypted THEN found(note.content)
          ELSE IF password = NoPassword
            THEN [Respond("getNote", 400, "Password required to decrypt note",
                          imageId, password) EXCEPT !.isEncrypted = TRUE]
          ELSE IF ~decrypted.ok
            THEN Respond("getNote", 400, "Invalid password or corrupted note",
                         imageId, password)
          ELSE IF note.noteHash # Null
                  /\ ~verifyNoteHash(decrypted.value, note.noteHash)
            THEN Respond("getNote", 400, "Note integrity check failed",
                         imageId, password)
          ELSE found(decrypted.value)
     /\ UNCHANGED <<db, ghost, fs, rng, held, now, timers>>
     /\ UNCHANGED <<calls, dec, cur, hist, res, procs, auth>>


\* what the user can upload: a new picture, or the file received last
Holding(file, ext, prov) == [any |-> TRUE, file |-> file, ext |-> ext, prov |-> prov]

UserFiles ==
  {Holding(PngFile(<<IHDR, IDAT, IEND>>), ".png", NoProv),
   Holding(JpegFile(NoTags), ".jpg", NoProv)}
    \cup (IF held.any THEN {held} ELSE {})

\* multer's filename: a suffix no earlier upload has, and the extension
UploadPath(n, ext) == Path("upload" \o ToString(n), 0, ext)

\* POST /api/images/upload
Upload(upload) ==
  LET imageId == Len(db.images) + 1
      imagePath == UploadPath(imageId, upload.ext)
      stored == (imagePath :> upload.file) @@ fs
      extractedNote == extractNote(stored, imagePath)
      hasEmbeddedNote == extractedNote.note # Null /\ extractedNote.note # <<>>
  IN /\ Len(db.images) < MaxImages
     /\ fs' = stored
     /\ db' = [db EXCEPT
                 !.images = Append(@, [originalUrl |-> imagePath,
                                       embeddedUrl |-> NoPath]),
                 !.notes = IF hasEmbeddedNote
                             THEN Append(@, [NewNote(imageId) EXCEPT
                                               !.content = extractedNote.note,
                                               !.isEncrypted = extractedNote.isEncrypted])
                             ELSE @]
     /\ ghost' = [files |-> (imagePath :> upload.prov) @@ ghost.files,
                  notes |-> IF hasEmbeddedNote
                              THEN Append(ghost.notes,
                                          [upload.prov EXCEPT !.via = "upload"])
                              ELSE ghost.notes,
                  saves |-> ghost.saves]
     /\ resp' = [Respond("upload", 201, "none", imageId, NoPassword) EXCEPT
                   !.isEncrypted = extractedNote.isEncrypted]
     /\ UNCHANGED <<rng, held, now, timers>>
     /\ UNCHANGED <<calls, dec, cur, hist, res, procs, auth>>

\* path.join(dirname, `download_${Date.now()}_${basename}`)
TempPath(originalUrl, time) ==
  Path("download_" \o ToString(time) \o "_" \o originalUrl.stem,
       originalUrl.emb, originalUrl.ext)

\* GET /api/download/image/:imageId, from the lookup of the note on
\* `finished`: the response was written out whole ('finish' was emitted);
\* it was not if the client went away or the stream failed
DownloadFound(imageId, password, finished) ==
  LET image == db.images[imageId]
      noteId == LatestNote(imageId)
      note == db.notes[noteId]
      decrypted == decryptNote([encryptedData |-> note.content,
                                salt |-> note.salt, iv |-> note.iv,
                                authTag |-> note.authTag, password |-> password])
      noteContent == IF noteId = 0 THEN <<>>
                     ELSE IF note.isEncrypted THEN decrypted.value
                     ELSE note.content
      r == embedNote(fs, EmbedOptions(image.originalUrl, noteContent,
                                      note.isEncrypted,
                                      TempPath(image.originalUrl, now)))
      embedded == noteContent # <<>> /\ r.ok
      downloadPath == IF embedded THEN r.out ELSE image.originalUrl
      after == IF noteContent # <<>> THEN r.fs ELSE fs
      provs == [path \in DOMAIN after |->
                  IF embedded /\ path = r.out THEN ghost.notes[noteId]
                  ELSE IF path \in DOMAIN ghost.files THEN ghost.files[path]
                  ELSE ghost.files[image.originalUrl]]
  IN IF noteId # 0 /\ note.isEncrypted /\ password = NoPassword
       THEN /\ resp' = [Respond("download", 400,
                                "Password required for encrypted note",
                                imageId, password) EXCEPT !.isEncrypted = TRUE]
            /\ UNCHANGED <<db, ghost, fs, rng, held, now, timers>>
     ELSE IF noteId # 0 /\ note.isEncrypted /\ ~decrypted.ok
       THEN Reject("download", 400, "Invalid password", imageId, password)
     ELSE /\ fs' = after
          /\ ghost' = [ghost EXCEPT !.files = provs]
          /\ timers' = IF embedded /\ finished THEN timers \cup {r.out} ELSE timers
          /\ now' = now + 1
          /\ held' = IF finished
                       THEN Holding(after[downloadPath], image.originalUrl.ext,
                                    provs[downloadPath])
                       ELSE held
          /\ resp' = Respond("download", 200,
                             IF finished THEN "none" ELSE "aborted",
                             imageId, password)
          /\ UNCHANGED <<db, rng>>

\* GET /api/download/image/:imageId
Download(imageId, password, finished) ==
  /\ now < MaxDownloads
  /\ UNCHANGED <<calls, dec, cur, hist, res, procs, auth>>
  /\ IF imageId \notin 1..Len(db.images)
       THEN Reject("download", 404, "Image not found", imageId, password)
       ELSE DownloadFound(imageId, password, finished)

\* the timer set on 'finish': fs.unlink(downloadPath)
CleanupTemp(path) ==
  /\ path \in timers
  /\ timers' = timers \ {path}
  /\ fs' = [q \in DOMAIN fs \ {path} |-> fs[q]]
  /\ ghost' = [ghost EXCEPT !.files = [q \in DOMAIN fs \ {path} |-> ghost.files[q]]]
  /\ UNCHANGED <<db, rng, held, resp, now>>
  /\ UNCHANGED <<calls, dec, cur, hist, res, procs, auth>>

\* GET /uploads/<user>/<file>, served by express.static, for the file that
\* image.embeddedUrl names
FetchStatic(imageId) ==
  LET path == db.images[imageId].embeddedUrl IN
  /\ imageId \in 1..Len(db.images)
  /\ path \in DOMAIN fs
  /\ held' = Holding(fs[path], path.ext, ghost.files[path])
  /\ resp' = Respond("static", 200, "none", 0, NoPassword)
  /\ UNCHANGED <<db, ghost, fs, rng, now, timers>>
  /\ UNCHANGED <<calls, dec, cur, hist, res, procs, auth>>

RoutesInit ==
  /\ CipherIdle
  /\ ProcsIdle
  /\ CodecIdle
  /\ RoutesIdle

RoutesNext ==
  \/ \E upload \in UserFiles : Upload(upload)
  \/ \E imageId \in 1..MaxImages, content \in Texts :
       \/ SaveNote(imageId, content, FALSE, NoPassword)
       \/ \E password \in Passwords \cup {NoPassword} :
            SaveNote(imageId, content, TRUE, password)
  \/ \E imageId \in 1..MaxImages, password \in Passwords \cup {NoPassword} :
       GetNote(imageId, password)
  \/ \E imageId \in 1..MaxImages, password \in Passwords \cup {NoPassword},
        finished \in BOOLEAN :
       Download(imageId, password, finished)
  \/ \E path \in timers : CleanupTemp(path)
  \/ \E imageId \in 1..MaxImages : FetchStatic(imageId)

SpecRoutes == RoutesInit /\ [][RoutesNext]_vars

\* a timer that was set fires
RoutesFairness == WF_vars(\E path \in timers : CleanupTemp(path))

SpecRoutesFair == SpecRoutes /\ RoutesFairness


-----------------------------------------------------------------------------
(* Claims about the routes (checked under SpecRoutes) *)

\* the Note row that GET /api/notes/:imageId answered from
AnsweredNote == FindNote(resp.imageId)

\* C5: a note s saved encrypted with password p and embedded is recovered
\* from the image file alone: after the file is uploaded again, reading the
\* note with p returns exactly s, and reading it with another password fails.
C5_EncryptedRoundTripThroughFile ==
  (/\ resp.route = "getNote"
   /\ resp.password # NoPassword
   /\ AnsweredNote # 0
   /\ ghost.notes[AnsweredNote].via = "upload"
   /\ ghost.notes[AnsweredNote].enc)
    => IF resp.password = ghost.notes[AnsweredNote].p
         THEN resp.status = 200 /\ resp.content = ghost.notes[AnsweredNote].s
         ELSE resp.status # 200

\* the plaintexts of the notes that were saved encrypted
EncryptedPlaintexts ==
  {ghost.notes[i].s : i \in {j \in 1..Len(ghost.notes) : ghost.notes[j].enc}}

HeldPath == Path("held", 0, held.ext)

\* C6: every embed with isEncrypted = true (note-save route, download route)
\* writes the ciphertext: extract on an image flagged encrypted, on the
\* server or in the user's hands, never yields the plaintext of the note.
C6_EncryptedFlagMeansCiphertext ==
  /\ \A path \in DOMAIN fs :
       extractNote(fs, path).isEncrypted
         => extractNote(fs, path).note \notin EncryptedPlaintexts
  /\ held.any /\ extractNote(HeldPath :> held.file, HeldPath).isEncrypted
       => extractNote(HeldPath :> held.file, HeldPath).note \notin EncryptedPlaintexts

\* the paths of the temporary files the download route can make
TempPaths ==
  {TempPath(UploadPath(imageId, ext), time) :
     imageId \in 1..MaxImages, ext \in {".png", ".jpg"}, time \in 0..MaxDownloads}

\* C25: every temporary file the download route makes is deleted in the
\* end, whether the response finished, the embed failed after the file was
\* made, the stream failed or the client went away.
C25_TempFilesDeleted ==
  \A path \in TempPaths : (path \in DOMAIN fs) ~> (path \notin DOMAIN fs)

\* the note extract finds in a file the user received
NoteInHeld(h) ==
  extractNote(Path("held", 0, h.ext) :> h.file, Path("held", 0, h.ext)).note

\* C24: a download of an image whose latest note is encrypted, asked for
\* with the password left empty, still delivers the image, without the
\* note; asked for with a wrong password it never delivers a file that
\* contains the note.
C24_EmptyPasswordDownloadsWithoutNote ==
  [][(/\ resp' # resp
      /\ resp'.route = "download"
      /\ resp'.imageId \in 1..Len(db.images)
      /\ LatestNote(resp'.imageId) # 0
      /\ db.notes[LatestNote(resp'.imageId)].isEncrypted)
       => /\ resp'.password = NoPassword
               => /\ resp'.status = 200
                  /\ held'.any
                  /\ NoteInHeld(held') \in {Null, <<>>}
          /\ (/\ resp'.password # NoPassword
              /\ resp'.password # ghost.notes[LatestNote(resp'.imageId)].p)
               => resp'.status # 200]_vars


-----------------------------------------------------------------------------
(* The note of one image, saved again and again and read back, with a      *)
(* database whose rows can come to harm between two requests               *)

MaxNoteSaves == 3

\* the one image of this walk
TheImage == 1

\* the note texts sent to the save route: none, and two that differ
NoteTexts == {Str(<<>>), Str(<<"a">>), Str(<<"w">>)}

\* the password the user encrypts with; reading also tries the other one
OwnPassword == "p1"

UploadFirst(upload) ==
  /\ Len(db.images) < TheImage
  /\ Upload(upload)

SaveAgain(content, encrypt, password) ==
  /\ ghost.saves < MaxNoteSaves
  /\ SaveHandler(TheImage, content, encrypt, password)

\* a Note row damaged in storage: the ciphertext lost, or the hash column
\* holding the hash of another text
CorruptNote(noteId, column) ==
  /\ noteId \in 1..Len(db.notes)
  /\ db.notes[noteId].isEncrypted
  /\ db.notes[noteId].salt # Null
  /\ IF column = "content"
       THEN /\ db.notes[noteId].content # <<>>
            /\ db' = [db EXCEPT !.notes[noteId].content = <<>>]
       ELSE \E t \in NoteTexts :
              /\ db.notes[noteId].noteHash = createNoteHash(ghost.notes[noteId].s)
              /\ createNoteHash(t) # db.notes[noteId].noteHash
              /\ db' = [db EXCEPT !.notes[noteId].noteHash = createNoteHash(t)]
  /\ UNCHANGED <<ghost, fs, rng, held, resp, now, timers>>
  /\ UNCHANGED <<calls, dec, cur, hist, res, procs, auth>>

NotesNext ==
  \/ \E upload \in UserFiles : UploadFirst(upload)
  \/ \E content \in NoteTexts :
       \/ SaveAgain(content, FALSE, NoPassword)
       \/ \E password \in {OwnPassword, NoPassword} :
            SaveAgain(content, TRUE, password)
  \/ \E password \in Passwords \cup {NoPassword} : GetNote(TheImage, password)
  \/ \E noteId \in 1..TheImage, column \in {"content", "noteHash"} :
       CorruptNote(noteId, column)

SpecNotes == RoutesInit /\ [][NotesNext]_vars

\* what decryptNote makes of the row GET /api/notes/:imageId reads
Decrypted(note, password) ==
  decryptNote([encryptedData |-> note.content, salt |-> note.salt,
               iv |-> note.iv, authTag |-> note.authTag, password |-> password])

\* C19: reading an encrypted note with a password, a decryption that fails
\* (wrong password, damaged ciphertext) answers 'Invalid password or
\* corrupted note', a decryption that succeeds on a row whose stored hash
\* differs from the hash of the plaintext answers 'Note integrity check
\* failed', the two errors differ, and neither response carries content.
C19_DecryptAndHashErrorsDiffer ==
  [][(resp' # resp /\ resp'.route = "getNote" /\ FindNote(resp'.imageId) # 0)
       => LET note == db.notes[FindNote(resp'.imageId)]
              decrypted == Decrypted(note, resp'.password)
          IN (note.isEncrypted /\ resp'.password # NoPassword)
               => /\ ~decrypted.ok
                     => /\ resp'.status = 400
                        /\ resp'.error = "Invalid password or corrupted note"
                        /\ resp'.content = <<>>
                  /\ (decrypted.ok /\ note.noteHash # createNoteHash(decrypted.value))
                     => /\ resp'.status = 400
                        /\ resp'.error = "Note integrity check failed"
                        /\ resp'.content = <<>>]_vars

\* the right password given for a row whose hash column was damaged
C19_Witness ==
  /\ resp.route = "getNote"
  /\ resp.error = "Note integrity check failed"
  /\ FindNote(resp.imageId) # 0
  /\ resp.password = ghost.notes[FindNote(resp.imageId)].p
  /\ Decrypted(db.notes[FindNote(resp.imageId)], resp.password).ok

\* C20: the version of a note grows by one with every successful save: a
\* note created by a save and saved k more times has version k + 1, and no
\* two rows of its history carry the same version.
C20_VersionCountsSaves ==
  /\ (Len(db.notes) >= 1 /\ ghost.notes[1].via = "save")
       => db.notes[1].version = ghost.saves
  /\ \A i, j \in VersionsOf(db.versions, 1) :
       i # j => db.versions[i].version # db.versions[j].version


-----------------------------------------------------------------------------
(* The history of one note over many saves: enough of them for the         *)
(* clean-up of old versions to delete rows                                 *)

MaxHistorySaves == 13

\* the texts of the saves: two, so that rows of the history can differ
HistoryTexts == {Str(<<"a">>), Str(<<"w">>)}

\* the picture whose note is saved
HistoryUpload == Holding(JpegFile(NoTags), ".jpg", NoProv)

SaveMany(content) ==
  /\ ghost.saves < MaxHistorySaves
  /\ SaveHandler(TheImage, content, FALSE, NoPassword)

HistoryNext ==
  \/ UploadFirst(HistoryUpload)
  \/ \E content \in HistoryTexts : SaveMany(content)

SpecHistory == RoutesInit /\ [][HistoryNext]_vars

\* the history of the note with the row a save adds, before the clean-up
Superseded ==
  IF FindNote(TheImage) = 0 THEN db.versions
  ELSE Append(db.versions,
              [noteId |-> FindNote(TheImage),
               content |-> db.notes[FindNote(TheImage)].content,
               version |-> db.notes[FindNote(TheImage)].version])

\* C21: once a save has completed the note has at most 10 history rows,
\* and they are the 10 most recently superseded versions: what the save
\* leaves is the tail of the history in the order the rows were written.
C21_KeepsTenMostRecent ==
  [][(resp'.route = "saveNote" /\ resp'.status = 200 /\ db' # db)
       => /\ Len(db'.versions) <= KeepVersions
          /\ db'.versions = SubSeq(Superseded,
                                   Len(Superseded) - Len(db'.versions) + 1,
                                   Len(Superseded))]_vars


-----------------------------------------------------------------------------
(* Requests in flight on one image: two note-save requests and the upload  *)
(* that brings the image, each running from one database or file call to   *)
(* the next, in any order                                                  *)

Savers == {1, 2}
Uploader == 3

NoRow == [content |-> Null, version |-> 0]

IdleRequest ==
  [pc |-> "idle", kind |-> "none", content |-> <<>>, existing |-> 0,
   currentVersion |-> 0, seen |-> NoRow, embedded |-> FALSE, status |-> 0,
   version |-> 0]

\* the texts the two requests save
RaceTexts == {Str(<<"a">>), Str(<<"a", "a">>)}

\* the files uploaded: a picture without a note, and one that carries one
RaceUploads ==
  {JpegFile(NoTags),
   JpegFile([NoTags EXCEPT !["ImageDescription"] = Present(Str(<<"w">>))])}

SaveRaceInit ==
  /\ CipherIdle
  /\ CodecIdle
  /\ RoutesIdle
  /\ procs = [p \in Savers \cup {Uploader} |-> IdleRequest]
  /\ AuthIdle

SaveRaceFrame ==
  /\ UNCHANGED <<ghost, rng, held, resp, now, timers>>
  /\ UNCHANGED <<calls, dec, cur, hist, res, auth>>

\* POST /api/images/upload up to prisma.image.create
UploadStore(file) ==
  /\ procs[Uploader].pc = "idle"
  /\ LET imagePath == UploadPath(TheImage, ".jpg")
         stored == (imagePath :> file) @@ fs
         extractedNote == extractNote(stored, imagePath)
     IN /\ fs' = stored
        /\ db' = [db EXCEPT !.images = Append(@, [originalUrl |-> imagePath,
                                                  embeddedUrl |-> NoPath])]
        /\ procs' = [procs EXCEPT ![Uploader] =
              [IdleRequest EXCEPT !.pc = "stored", !.kind = "upload",
                                  !.content = extractedNote.note]]
  /\ SaveRaceFrame

\* POST /api/images/upload from `if (extractedNote.note)` on
UploadCreateNote ==
  /\ procs[Uploader].pc = "stored"
  /\ LET note == procs[Uploader].content
     IN db' = [db EXCEPT !.notes =
                 IF note # Null /\ note # <<>>
                   THEN Append(@, [NewNote(TheImage) EXCEPT !.content = note])
                   ELSE @]
  /\ procs' = [procs EXCEPT ![Uploader] = [@ EXCEPT !.pc = "done", !.status = 201]]
  /\ fs' = fs
  /\ SaveRaceFrame

\* POST /api/notes/:imageId up to the lookup of the existing note
SaveFind(p, content) ==
  /\ procs[p].pc = "idle"
  /\ TheImage \in 1..Len(db.images)
  /\ LET existingNote == FindNote(TheImage)
     IN procs' = [procs EXCEPT ![p] =
          [IdleRequest EXCEPT
             !.pc = "found", !.kind = "save", !.content = content,
             !.existing = existingNote,
             !.currentVersion =
               IF existingNote = 0 THEN 0 ELSE CurrentVersion(existingNote),
             !.seen = IF existingNote = 0 THEN NoRow
                      ELSE [content |-> db.notes[existingNote].content,
                            version |-> db.notes[existingNote].version]]]
  /\ UNCHANGED <<db, fs>>
  /\ SaveRaceFrame

\* the history row, the clean-up and the update of the note, or its creation
SaveWrite(p) ==
  /\ procs[p].pc = "found"
  /\ LET me == procs[p]
         noteData == [content |-> me.content, isEncrypted |-> FALSE,
                      noteHash |-> createNoteHash(me.content)]
         version == IF me.existing = 0 THEN 1 ELSE me.currentVersion + 1
         before == IF me.existing = 0 THEN NewNote(TheImage)
                   ELSE db.notes[me.existing]
         note == [f \in DOMAIN before |->
                    IF f = "version" THEN version
                    ELSE IF f \in DOMAIN noteData THEN noteData[f]
                    ELSE before[f]]
         withHistory ==
           IF me.existing = 0 THEN db.versions
           ELSE Append(db.versions,
                       [noteId |-> me.existing, content |-> me.seen.content,
                        version |-> me.seen.version])
     IN /\ \E oldVersions \in OldVersions(withHistory, me.existing) :
             db' = [db EXCEPT
                      !.notes = IF me.existing = 0 THEN Append(@, note)
                                ELSE [@ EXCEPT ![me.existing] = note],
                      !.versions = DeleteRows(withHistory, oldVersions)]
        /\ procs' = [procs EXCEPT ![p] = [@ EXCEPT !.pc = "written",
                                                   !.version = version]]
  /\ fs' = fs
  /\ SaveRaceFrame

\* embedNote, prisma.image.update and the response
SaveEmbed(p) ==
  /\ procs[p].pc = "written"
  /\ LET image == db.images[TheImage]
         r == embedNote(fs, EmbedOptions(image.originalUrl, procs[p].content, FALSE,
                                         EmbeddedPathOf(image.originalUrl)))
     IN /\ fs' = r.fs
        /\ db' = IF r.ok THEN [db EXCEPT !.images[TheImage].embeddedUrl = r.out]
                 ELSE db
        /\ procs' = [procs EXCEPT ![p] = [@ EXCEPT !.pc = "done", !.status = 200,
                                                   !.embedded = r.ok]]
  /\ SaveRaceFrame

SaveRaceNext ==
  \/ \E file \in RaceUploads : UploadStore(file)
  \/ UploadCreateNote
  \/ \E p \in Savers, content \in RaceTexts : SaveFind(p, content)
  \/ \E p \in Savers : SaveWrite(p)
  \/ \E p \in Savers : SaveEmbed(p)

SpecSaveRace == SaveRaceInit /\ [][SaveRaceNext]_vars

\* C22: the database never holds two Note rows for the same image (there
\* is one user), however the save requests and the upload interleave.
C22_OneNotePerImage ==
  Cardinality(NotesOf(TheImage)) <= 1

\* C23: when all unencrypted saves of an image have completed and every
\* embed succeeded, the note in the file at image.embeddedUrl is the
\* content of the image's Note row.
C23_FileMatchesDatabase ==
  (/\ \A p \in Savers : procs[p].pc = "done" /\ procs[p].embedded
   /\ procs[Uploader].pc = "done"
   /\ Cardinality(NotesOf(TheImage)) = 1)
    => extractNote(fs, db.images[TheImage].embeddedUrl).note
         = db.notes[FindNote(TheImage)].content


-----------------------------------------------------------------------------
(* Share links: routes/shares and PATCH /api/images/:id, for one owner     *)
(* and the visitors who hold a link. Here db holds the tables Image and    *)
(* Share, and now counts hours.                                            *)

MaxShares == 2
MaxClock == 2

\* expiresIn and password left out of the request
NoExpiry == 0
NoHash == <<>>

bcryptHash(password) == <<[bcrypt |-> password]>>
bcryptCompare(password, hash) == hash = bcryptHash(password)

ShareResponse(route, status, error, imageId) ==
  [route |-> route, status |-> status, error |-> error, imageId |-> imageId]

ShareInit ==
  /\ CipherIdle
  /\ CodecIdle
  /\ ProcsIdle
  /\ db = [images |-> <<>>, shares |-> <<>>]
  /\ ghost = [files |-> <<>>, notes |-> <<>>, saves |-> 0]
  /\ held = NoHeld
  /\ resp = ShareResponse("none", 0, "none", 0)
  /\ now = 0
  /\ timers = {}

ShareFrame ==
  /\ UNCHANGED <<ghost, held, timers, fs>>
  /\ UNCHANGED <<calls, dec, cur, hist, res, procs, auth>>

\* POST /api/images/upload: the Image row, with isPrivate as the form gives it
ShareUpload(isPrivate) ==
  /\ Len(db.images) < TheImage
  /\ db' = [db EXCEPT !.images = Append(@, [isPrivate |-> isPrivate])]
  /\ resp' = ShareResponse("upload", 201, "none", Len(db.images) + 1)
  /\ UNCHANGED <<rng, now>>
  /\ ShareFrame

\* POST /api/shares/:imageId/share
CreateShare(imageId, password, expiresIn) ==
  /\ Len(db.shares) < MaxShares
  /\ IF imageId \notin 1..Len(db.images) \/ db.images[imageId].isPrivate
       THEN /\ resp' = ShareResponse("createShare", 404,
                                     "Image not found or is private", imageId)
            /\ UNCHANGED <<db, rng>>
       ELSE /\ db' = [db EXCEPT !.shares =
                        Append(@, [imageId |-> imageId,
                                   shareToken |-> RandomBytes(rng + 1, 32),
                                   password |-> IF password # NoPassword
                                                  THEN bcryptHash(password)
                                                  ELSE NoHash,
                                   expiresAt |-> IF expiresIn # NoExpiry
                                                   THEN now + expiresIn
                                                   ELSE NoExpiry])]
            /\ rng' = rng + 1
            /\ resp' = ShareResponse("createShare", 200, "none", imageId)
  /\ now' = now
  /\ ShareFrame

\* PATCH /api/images/:id; `given`: the body carries isPrivate
PatchImage(id, given, isPrivate) ==
  /\ IF id \notin 1..Len(db.images)
       THEN /\ resp' = ShareResponse("patch", 404, "Image not found", id)
            /\ db' = db
       ELSE /\ db' = IF given
                       THEN [db EXCEPT !.images[id].isPrivate = isPrivate]
                       ELSE db
            /\ resp' = ShareResponse("patch", 200, "none", id)
  /\ UNCHANGED <<rng, now>>
  /\ ShareFrame

\* prisma.share.findUnique({ where: { shareToken } }); 0 when there is none
FindShare(shareToken) ==
  IF \E i \in 1..Len(db.shares) : db.shares[i].shareToken = shareToken
    THEN CHOOSE i \in 1..Len(db.shares) : db.shares[i].shareToken = shareToken
    ELSE 0

\* GET /api/shares/:shareToken, once the share is found
AccessOutcome(share, password) ==
  IF share.expiresAt # NoExpiry /\ share.expiresAt < now
    THEN ShareResponse("accessShare", 410, "Share link has expired", 0)
  ELSE IF share.password # NoHash /\ password = NoPassword
    THEN ShareResponse("accessShare", 401, "Password required", 0)
  ELSE IF share.password # NoHash /\ ~bcryptCompare(password, share.password)
    THEN ShareResponse("accessShare", 401, "Invalid password", 0)
  ELSE ShareResponse("accessShare", 200, "none", share.imageId)

\* GET /api/shares/:shareToken
AccessShare(shareToken, password) ==
  /\ resp' = IF FindShare(shareToken) = 0
               THEN ShareResponse("accessShare", 404, "Share not found", 0)
               ELSE AccessOutcome(db.shares[FindShare(shareToken)], password)
  /\ UNCHANGED <<db, rng, now>>
  /\ ShareFrame

\* an hour passes
Tick ==
  /\ now < MaxClock
  /\ now' = now + 1
  /\ UNCHANGED <<db, rng, resp>>
  /\ ShareFrame

\* the tokens a visitor tries: the ones handed out, and one that was not
Tokens == {RandomBytes(n, 32) : n \in 1..(MaxShares + 1)}

ShareNext ==
  \/ \E isPrivate \in BOOLEAN : ShareUpload(isPrivate)
  \/ \E password \in {NoPassword, OwnPassword}, expiresIn \in {NoExpiry, 1} :
       CreateShare(TheImage, password, expiresIn)
  \/ \E given \in BOOLEAN, isPrivate \in BOOLEAN :
       PatchImage(TheImage, given, isPrivate)
  \/ \E shareToken \in Tokens, password \in Passwords \cup {NoPassword} :
       AccessShare(shareToken, password)
  \/ Tick

SpecShares == ShareInit /\ [][ShareNext]_vars

\* C26: an access to a share token returns image data only if the image
\* is not private at the time of the access.
C26_PrivateNeverShared ==
  [][(resp' # resp /\ resp'.route = "accessShare" /\ resp'.status = 200)
       => ~db.images[resp'.imageId].isPrivate]_vars


-----------------------------------------------------------------------------
(* Search: GET /api/notes?q= and GET /api/images?search=, over the note    *)
(* of one image                                                            *)

\* toLowerCase of a character, for mode: 'insensitive'
FoldCase(c) == IF IsLit(c) /\ c.ch = "A" THEN Lit("a") ELSE c

\* content: { contains: q, mode: 'insensitive' }
Contains(content, q) ==
  /\ content # Null
  /\ \E i \in 1..(Len(content) - Len(q) + 1) :
       \A k \in 1..Len(q) : FoldCase(content[i + k - 1]) = FoldCase(q[k])

\* the queries typed: letters, and any one character of a stored content
\* (a base64 digit of a ciphertext can be typed like any other)
Queries ==
  {Str(<<"a">>), Str(<<"A">>), Str(<<"w">>)}
    \cup UNION {{<<db.notes[n].content[i]>> : i \in 1..Len(db.notes[n].content)} :
                  n \in {m \in 1..Len(db.notes) : db.notes[m].content # Null}}

SearchResponse(route, q, nameMatches, ids) ==
  [route |-> route, status |-> 200, error |-> "none", q |-> q,
   nameMatches |-> nameMatches, ids |-> ids]

\* GET /api/notes?q=: the ids of the notes found
SearchNotes(q) ==
  /\ resp' = SearchResponse("searchNotes", q, FALSE,
                            {n \in 1..Len(db.notes) :
                               /\ ~db.notes[n].isEncrypted
                               /\ Contains(db.notes[n].content, q)})
  /\ UNCHANGED <<db, ghost, fs, rng, held, now, timers>>
  /\ UNCHANGED <<calls, dec, cur, hist, res, procs, auth>>

\* GET /api/images?search=: the ids of the images found. `nameMatches`:
\* the file name, digits and an extension, contains the query; it does not
\* for the letters typed here
ListImages(search, nameMatches) ==
  /\ nameMatches => search \notin {Str(<<"a">>), Str(<<"A">>), Str(<<"w">>)}
  /\ resp' = SearchResponse("listImages", search, nameMatches,
                            {id \in 1..Len(db.images) :
                               \/ nameMatches
                               \/ \E n \in NotesOf(id) :
                                    Contains(db.notes[n].content, search)})
  /\ UNCHANGED <<db, ghost, fs, rng, held, now, timers>>
  /\ UNCHANGED <<calls, dec, cur, hist, res, procs, auth>>

SearchNext ==
  \/ \E upload \in UserFiles : UploadFirst(upload)
  \/ \E content \in NoteTexts :
       \/ SaveAgain(content, FALSE, NoPassword)
       \/ \E password \in {OwnPassword, NoPassword} :
            SaveAgain(content, TRUE, password)
  \/ \E q \in Queries : SearchNotes(q)
  \/ \E search \in Queries, nameMatches \in BOOLEAN : ListImages(search, nameMatches)

SpecSearch == RoutesInit /\ [][SearchNext]_vars

\* C27: on both search entry points a result is never selected because
\* the query matched the stored content of a note flagged encrypted: every
\* note found is unencrypted, and every image found has a matching file
\* name or an unencrypted note that matches.
C27_SearchSkipsEncrypted ==
  /\ resp.route = "searchNotes"
       => \A n \in resp.ids : ~db.notes[n].isEncrypted
  /\ resp.route = "listImages"
       => \A id \in resp.ids :
            \/ resp.nameMatches
            \/ \E n \in NotesOf(id) :
                 /\ ~db.notes[n].isEncrypted
                 /\ Contains(db.notes[n].content, resp.q)


-----------------------------------------------------------------------------
(* Operations in flight: two callers, each on images of its own, whose     *)
(* embed and extract calls run step by step, one step per await, in any    *)
(* order. exiftool is one object for all callers; it keeps no file state   *)
(* between calls.                                                          *)

Procs == {1, 2}

NoFile == [kind |-> "none", chunks |-> <<>>, tags |-> <<>>]

IdleProc ==
  [pc |-> "idle", op |-> "none",
   options |-> EmbedOptions(NoPath, <<>>, FALSE, NoPath),
   buffer |-> NoFile, ok |-> TRUE, error |-> "none", out |-> NoPath,
   result |-> NoNote, during |-> FALSE]

\* the images each caller works on, and the notes it embeds
OwnImages(p) ==
  IF p = 1
    THEN {Path("plain", 0, ".png"), Path("photo", 0, ".jpg"),
          Path("broken", 0, ".jpg"), Path("anim", 0, ".gif")}
    ELSE {Path("titled", 0, ".PNG"), Path("tagged", 0, ".jpeg"),
          Path("badtext", 0, ".png"), Path("missing", 0, ".png")}

OwnNotes == {Str(<<>>), Str(<<"a">>), Str(<<"w">>)}

InFlight(q) == procs[q].pc \in {"copied", "read"}

ConcurrentInit ==
  /\ CipherIdle
  /\ RoutesIdle
  /\ fs = InitialFiles
  /\ cur = NoPath
  /\ hist = <<>>
  /\ res = NoRes
  /\ procs = [p \in Procs |-> IdleProc]
  /\ AuthIdle

Called(p, op, options) ==
  [IdleProc EXCEPT !.op = op, !.options = options,
                   !.during = \E q \in Procs \ {p} : InFlight(q)]

Finished(proc, ok, error, out) ==
  [proc EXCEPT !.pc = "done", !.ok = ok, !.error = error, !.out = out]

ConcurrentFrame ==
  /\ UNCHANGED <<cur, hist, res, auth>>
  /\ UNCHANGED cipherVars
  /\ UNCHANGED routeVars

\* a copy made at a path that all callers share
CopyTarget_sharedTemp(output) == Path("tmp", 0, ".jpg")

\* fs.promises.copyFile(imagePath, output): where the working copy lies
CopyTarget(output) == output

\* embedNote called, up to the first await of the format's function and
\* the file operation awaited there: copyFile for JPEG, readFile for PNG
BeginEmbed(p, imagePath, note, isEncrypted) ==
  /\ procs[p].pc = "idle"
  /\ LET options == EmbedOptions(imagePath, note, isEncrypted, NoPath)
         ext == Lower(imagePath.ext)
         proc == Called(p, "embed", options)
     IN CASE ext \in {".jpg", ".jpeg"} ->
               IF imagePath \notin DOMAIN fs
                 THEN /\ procs' = [procs EXCEPT ![p] =
                            Finished(proc, FALSE, "Failed to embed note in JPEG", NoPath)]
                      /\ fs' = fs
                 ELSE /\ procs' = [procs EXCEPT ![p] = [proc EXCEPT !.pc = "copied"]]
                      /\ fs' = (CopyTarget(JpegOutput(options)) :> fs[imagePath]) @@ fs
          [] ext = ".png" ->
               IF imagePath \notin DOMAIN fs
                 THEN /\ procs' = [procs EXCEPT ![p] =
                            Finished(proc, FALSE, "Failed to embed note in PNG", NoPath)]
                      /\ fs' = fs
                 ELSE /\ procs' = [procs EXCEPT ![p] =
                            [proc EXCEPT !.pc = "read", !.buffer = fs[imagePath]]]
                      /\ fs' = fs
          [] OTHER ->
               /\ procs' = [procs EXCEPT ![p] =
                     Finished(proc, FALSE, "Unsupported image format", NoPath)]
               /\ fs' = fs
  /\ ConcurrentFrame

\* embedNoteInJPEG after copyFile: exiftool.write on the copy
WriteTags(p) ==
  /\ procs[p].pc = "copied"
  /\ LET options == procs[p].options
         output == JpegOutput(options)
         copy == fs[CopyTarget(output)]
     IN IF ~ExifWritable(copy)
          THEN /\ procs' = [procs EXCEPT ![p] =
                     Finished(@, FALSE, "Failed to embed note in JPEG", NoPath)]
               /\ fs' = fs
          ELSE /\ procs' = [procs EXCEPT ![p] = Finished(@, TRUE, "none", output)]
               /\ fs' = (output :> ExifWrite(copy, DOMAIN NoteTags(options),
                                             NoteTags(options))) @@ fs
  /\ ConcurrentFrame

\* embedNoteInPNG after readFile: the chunks of the buffer are rebuilt and
\* writeFile puts them at the output path
WriteChunks(p) ==
  /\ procs[p].pc = "read"
  /\ LET options == procs[p].options
         r == embedNoteInPNG(options.imagePath :> procs[p].buffer, options)
     IN IF ~r.ok
          THEN /\ procs' = [procs EXCEPT ![p] = Finished(@, FALSE, r.error, NoPath)]
               /\ fs' = fs
          ELSE /\ procs' = [procs EXCEPT ![p] = Finished(@, TRUE, "none", r.out)]
               /\ fs' = (r.out :> r.fs[r.out]) @@ fs
  /\ ConcurrentFrame

\* extractNote: one read (exiftool.read or readFile), then the result
ExtractCall(p, imagePath) ==
  /\ procs[p].pc = "idle"
  /\ procs' = [procs EXCEPT ![p] =
        [Finished(Called(p, "extract", EmbedOptions(imagePath, <<>>, FALSE, NoPath)),
                  TRUE, "none", NoPath)
           EXCEPT !.result = extractNote(fs, imagePath)]]
  /\ fs' = fs
  /\ ConcurrentFrame

ConcurrentNext ==
  \/ \E p \in Procs :
       \E imagePath \in OwnImages(p), note \in OwnNotes, isEncrypted \in BOOLEAN :
         BeginEmbed(p, imagePath, note, isEncrypted)
  \/ \E p \in Procs : WriteTags(p)
  \/ \E p \in Procs : WriteChunks(p)
  \/ \E p \in Procs : \E imagePath \in OwnImages(p) : ExtractCall(p, imagePath)

SpecConcurrent == ConcurrentInit /\ [][ConcurrentNext]_vars

\* the call of process p run alone on the initial files
Alone(p) == embedNote(InitialFiles, procs[p].options)

\* the output path of the call of process p
OutputOf(p) ==
  IF Lower(procs[p].options.imagePath.ext) = ".png"
    THEN PngOutput(procs[p].options)
    ELSE JpegOutput(procs[p].options)

\* C18: operations on different images, with distinct input and output
\* paths, are independent: however their steps interleave, each finished
\* operation has returned what it returns when run alone, and the file at
\* its output path is the file it writes when run alone.
C18_InterleavingIndependent ==
  \A p \in Procs :
    procs[p].pc = "done" =>
      IF procs[p].op = "extract"
        THEN procs[p].result = extractNote(InitialFiles, procs[p].options.imagePath)
        ELSE /\ procs[p].ok = Alone(p).ok
             /\ procs[p].error = Alone(p).error
             /\ procs[p].out = Alone(p).out
             /\ OutputOf(p) \in DOMAIN fs <=> OutputOf(p) \in DOMAIN Alone(p).fs
             /\ OutputOf(p) \in DOMAIN fs => fs[OutputOf(p)] = Alone(p).fs[OutputOf(p)]

\* two JPEG embeds that overlapped in time and both succeeded
C18_Witness ==
  /\ \A p \in Procs : procs[p].pc = "done" /\ procs[p].op = "embed" /\ procs[p].ok
  /\ procs[1].options.imagePath = Path("photo", 0, ".jpg")
  /\ procs[2].options.imagePath = Path("tagged", 0, ".jpeg")
  /\ procs[2].during

-----------------------------------------------------------------------------
(* AuthProvider (lib/auth-context) in one browser tab, with the axios     *)
(* response interceptor of lib/api. Requests are answered at any later    *)
(* time, in any order.                                                     *)

NoToken == ""
NoUser == ""

\* the token left in localStorage by an earlier visit, and its user
StoredToken == "t0"
UserOf(token) == "user of " \o token

\* the page as loaded: the useState defaults, axios without the header,
\* no request sent
Loaded(storage) ==
  [user |-> NoUser, token |-> NoToken, loading |-> TRUE, storage |-> storage,
   header |-> NoToken, mounted |-> FALSE, me |-> NoToken, pending |-> {}]

AuthInit ==
  /\ CipherIdle
  /\ CodecIdle
  /\ RoutesIdle
  /\ procs = <<>>
  /\ auth \in {Loaded(NoToken), Loaded(StoredToken)}

AuthFrame ==
  /\ UNCHANGED cipherVars
  /\ UNCHANGED codecVars
  /\ UNCHANGED routeVars
  /\ UNCHANGED procs

\* useEffect(() => {...}, [])
Mount ==
  /\ ~auth.mounted
  /\ auth' = IF auth.storage # NoToken
               THEN [auth EXCEPT !.mounted = TRUE, !.token = auth.storage,
                                 !.header = auth.storage, !.me = auth.storage]
               ELSE [auth EXCEPT !.mounted = TRUE, !.loading = FALSE]
  /\ AuthFrame

\* the response interceptor on a 401: the token is removed and the page is
\* loaded anew at /auth/login
Redirected == Loaded(NoToken)

\* api.get('/auth/me') answered: .then, or .catch, and .finally
MeAnswered(status) ==
  /\ auth.me # NoToken
  /\ auth' =
       CASE status = 200 ->
              [auth EXCEPT !.me = NoToken, !.user = UserOf(auth.me),
                           !.loading = FALSE]
         [] status = 401 -> Redirected
         [] OTHER ->
              [auth EXCEPT !.me = NoToken, !.storage = NoToken,
                           !.token = NoToken, !.header = NoToken,
                           !.loading = FALSE]
  /\ AuthFrame

\* the calls made: login for one of two accounts, register for a third;
\* each names the token the server answers with on success
Call(fn, token) == [fn |-> fn, token |-> token]
Calls == {Call("login", "t1"), Call("login", "t2"), Call("register", "t3")}

\* login or register up to the await of api.post
Submit(call) ==
  /\ auth.mounted
  /\ call \notin auth.pending
  /\ auth' = [auth EXCEPT !.pending = @ \cup {call}]
  /\ AuthFrame

\* what follows the await in login and in register
Signed(call, status) ==
  /\ call \in auth.pending
  /\ auth' =
       CASE status = 200 ->
              [auth EXCEPT !.pending = @ \ {call}, !.user = UserOf(call.token),
                           !.token = call.token, !.storage = call.token,
                           !.header = call.token]
         [] status = 401 -> Redirected
         [] OTHER -> [auth EXCEPT !.pending = @ \ {call}]
  /\ AuthFrame

login(call, status) == call.fn = "login" /\ Signed(call, status)

register(call, status) == call.fn = "register" /\ Signed(call, status)

\* any other request of the page answered 401: the interceptor alone
Unauthorized ==
  /\ auth.mounted
  /\ auth.header # NoToken
  /\ auth' = Redirected
  /\ AuthFrame

logout ==
  /\ auth.mounted
  /\ auth' = [auth EXCEPT !.user = NoUser, !.token = NoToken,
                          !.storage = NoToken, !.header = NoToken]
  /\ AuthFrame

\* the statuses of an answer: success, unauthorized, another failure
Statuses == {200, 401, 500}

AuthNext ==
  \/ Mount
  \/ \E status \in Statuses : MeAnswered(status)
  \/ \E call \in Calls : Submit(call)
  \/ \E call \in Calls, status \in Statuses : login(call, status)
  \/ \E call \in Calls, status \in Statuses : register(call, status)
  \/ logout
  \/ Unauthorized

SpecAuth == AuthInit /\ [][AuthNext]_vars

\* C28: whenever loading is false the user is non-null exactly when the
\* token is non-null, and the token in state, the localStorage entry and
\* the Authorization header hold the same token or are all absent.
C28_AuthStateConsistent ==
  ~auth.loading
    => /\ (auth.user # NoUser) <=> (auth.token # NoToken)
       /\ auth.token = auth.storage
       /\ auth.token = auth.header


====
